---- MODULE Spec2Model ----
(***************************************************************************)
(* Model of ccx (claude-env): the credential cipher, the profile store,    *)
(* the profile commands and the shell script generator.                    *)
(*                                                                         *)
(* Text is a sequence of tokens.  A one-character string is the character  *)
(* itself; "U+00E9", "U+20AC" and "U+1F511" are single characters outside  *)
(* ASCII and "U+FFFD" is the replacement character; a longer string is a   *)
(* run of ordinary characters (no quote, no delimiter, no line break).     *)
(* A JavaScript object is a function whose domain is the set of its own    *)
(* keys: a key that is missing (or undefined) is not in the domain.        *)
(***************************************************************************)
EXTENDS Integers, Sequences, FiniteSets, TLC

VARIABLES
    profiles,       \* config 'profiles': name -> persisted Profile record
    activeProfile,  \* config 'activeProfile': a name, or Null
    settings,       \* config 'settings'
    now,            \* the wall clock read by new Date()
    last,           \* the last operation: what was called and how it ended
    stdout,         \* what the last command printed for its caller
    cEnc,           \* cipher calls: the latest encrypt call and its result
    cPrev,          \* cipher calls: the encrypt call before the latest one
    cDec,           \* cipher calls: the latest decrypt call and its result
    emitted,        \* generator calls: the latest call of lib/shell.ts and its result
    race,           \* two concurrent invocations: their positions and local values
    shells          \* the environment variables of the live shells

vars == <<profiles, activeProfile, settings, now, last, stdout, cEnc, cPrev, cDec, emitted,
          race, shells>>

storeVars == <<profiles, activeProfile, settings, now, last, stdout>>
cipherVars == <<cEnc, cPrev, cDec>>
liveVars == <<race, shells>>
harnessVars == <<cEnc, cPrev, cDec, emitted, race, shells>>

\* the processes of two concurrent invocations, none of them started
Procs == {1, 2}
NoRace == [proc |-> [i \in Procs |-> [pc |-> "idle"]], written |-> {}]

\* no live shell is looked at
NoShells == <<>>

(***************************************************************************)
(* Characters, UTF-8 and hex                                               *)
(***************************************************************************)
HexLower == <<"0","1","2","3","4","5","6","7","8","9","a","b","c","d","e","f">>
HexUpper == <<"0","1","2","3","4","5","6","7","8","9","A","B","C","D","E","F">>

HexChars == {HexLower[i] : i \in 1..16} \cup {HexUpper[i] : i \in 1..16}
HexValues ==
    [c \in HexChars |-> (CHOOSE i \in 1..16 : HexLower[i] = c \/ HexUpper[i] = c) - 1]

IsHex(c) == c \in HexChars
HexVal(c) == HexValues[c]

ReplacementChar == "U+FFFD"

\* the characters that credentials and records are written with
Alphabet ==
    {HexLower[i] : i \in 1..16} \cup
    {":", "'", "-", " ", "k", "s", "n", "o", "t", "v", "l", "i", "r", "u", "m",
     "U+00E9", "U+20AC", "U+1F511"}

\* their Unicode code points
CodePoints ==
    [c \in Alphabet |->
        IF \E i \in 1..16 : HexLower[i] = c
        THEN LET i == CHOOSE j \in 1..16 : HexLower[j] = c
             IN  IF i <= 10 THEN 47 + i ELSE 86 + i
        ELSE CASE c = ":" -> 58
               [] c = "'" -> 39
               [] c = "-" -> 45
               [] c = " " -> 32
               [] c = "k" -> 107
               [] c = "s" -> 115
               [] c = "n" -> 110
               [] c = "o" -> 111
               [] c = "t" -> 116
               [] c = "v" -> 118
               [] c = "l" -> 108
               [] c = "i" -> 105
               [] c = "r" -> 114
               [] c = "u" -> 117
               [] c = "m" -> 109
               [] c = "U+00E9" -> 233
               [] c = "U+20AC" -> 8364
               [] c = "U+1F511" -> 128273]

CodeChars ==
    [cp \in {CodePoints[c] : c \in Alphabet} |->
        CHOOSE c \in Alphabet : CodePoints[c] = cp]

CharCode(c) == CodePoints[c]
CharOf(cp) == IF cp \in DOMAIN CodeChars THEN CodeChars[cp] ELSE ReplacementChar

\* faulty variant: the text encoded one byte per character, as 'latin1' would
Latin1OfChar(c) == <<CharCode(c) % 256>>

\* cipher.update(text, 'utf8', ...): the UTF-8 bytes of one character
Utf8OfChar(c) ==
    LET cp == CharCode(c) IN
    IF cp < 128 THEN <<cp>>
    ELSE IF cp < 2048 THEN <<192 + (cp \div 64), 128 + (cp % 64)>>
    ELSE IF cp < 65536
         THEN <<224 + (cp \div 4096), 128 + ((cp \div 64) % 64), 128 + (cp % 64)>>
         ELSE <<240 + (cp \div 262144), 128 + ((cp \div 4096) % 64),
                128 + ((cp \div 64) % 64), 128 + (cp % 64)>>

RECURSIVE Utf8Encode(_)
Utf8Encode(text) ==
    IF text = <<>> THEN <<>>
    ELSE Utf8OfChar(Head(text)) \o Utf8Encode(Tail(text))

IsCont(bytes, i) == i <= Len(bytes) /\ bytes[i] >= 128 /\ bytes[i] < 192

\* decipher.update(..., 'utf8') + final('utf8'): never throws, an ill-formed
\* byte decodes to the replacement character.  Decodes bytes[i..].
RECURSIVE Utf8DecodeFrom(_, _)
Utf8DecodeFrom(bytes, i) ==
    IF i > Len(bytes) THEN <<>>
    ELSE LET b == bytes[i]
         IN  IF b < 128 THEN <<CharOf(b)>> \o Utf8DecodeFrom(bytes, i + 1)
             ELSE IF b >= 194 /\ b < 224 /\ IsCont(bytes, i + 1)
             THEN <<CharOf((b - 192) * 64 + (bytes[i + 1] - 128))>>
                  \o Utf8DecodeFrom(bytes, i + 2)
             ELSE IF b >= 224 /\ b < 240 /\ IsCont(bytes, i + 1) /\ IsCont(bytes, i + 2)
             THEN <<CharOf((b - 224) * 4096 + (bytes[i + 1] - 128) * 64
                           + (bytes[i + 2] - 128))>>
                  \o Utf8DecodeFrom(bytes, i + 3)
             ELSE IF b >= 240 /\ b < 245 /\ IsCont(bytes, i + 1) /\ IsCont(bytes, i + 2)
                     /\ IsCont(bytes, i + 3)
             THEN <<CharOf((b - 240) * 262144 + (bytes[i + 1] - 128) * 4096
                           + (bytes[i + 2] - 128) * 64 + (bytes[i + 3] - 128))>>
                  \o Utf8DecodeFrom(bytes, i + 4)
             ELSE <<ReplacementChar>> \o Utf8DecodeFrom(bytes, i + 1)

Utf8Decode(bytes) == Utf8DecodeFrom(bytes, 1)

\* Buffer#toString('hex') / cipher output encoding 'hex'
ToHex(bytes) ==
    [i \in 1..(2 * Len(bytes)) |->
        IF i % 2 = 1 THEN HexLower[(bytes[(i + 1) \div 2] \div 16) + 1]
                     ELSE HexLower[(bytes[i \div 2] % 16) + 1]]

\* the number of leading pairs of hex digits of s, counted from pair n + 1
RECURSIVE HexPairs(_, _)
HexPairs(s, n) ==
    IF 2 * n + 2 <= Len(s) /\ IsHex(s[2 * n + 1]) /\ IsHex(s[2 * n + 2])
    THEN HexPairs(s, n + 1)
    ELSE n

\* Buffer.from(s, 'hex'): decodes pairs of hex digits and stops at the first
\* pair that is not hex; a trailing single digit is dropped
FromHex(s) ==
    [i \in 1..HexPairs(s, 0) |-> HexVal(s[2 * i - 1]) * 16 + HexVal(s[2 * i])]

(***************************************************************************)
(* Key derivation and the credential cipher (lib/config.ts)                *)
(***************************************************************************)
BlockSize == 16     \* AES block, and the IV drawn by crypto.randomBytes(16)
KeyLen == 32        \* SHA-256 digest, the AES-256 key

\* os.hostname() + os.userInfo().username of the machine that runs the CLI,
\* and of another machine or account whose records may turn up in the file
Machines == {"local", "foreign"}
MachineSeed(m) == IF m = "local" THEN 17 ELSE 200

\* sha256(hostname + username + 'ccx-salt-v1'): SHA-256 is stood in for by a
\* deterministic function of the machine identity; equal on the same machine
\* and account, different elsewhere
DeriveKey(m) == [i \in 1..KeyLen |-> (MachineSeed(m) + 7 * i) % 256]

ENCRYPTION_KEY == DeriveKey("local")

\* bitwise exclusive or of two bytes
RECURSIVE XorBits(_, _, _)
XorBits(a, b, n) ==
    IF n = 0 THEN 0
    ELSE ((a + b) % 2) + 2 * XorBits(a \div 2, b \div 2, n - 1)

XorTable == [a \in 0..255 |-> [b \in 0..255 |-> XorBits(a, b, 8)]]

XorBlock(x, y) == [i \in 1..BlockSize |-> XorTable[x[i]][y[i]]]

\* The AES block transformation is stood in for by a keyed permutation of
\* the 16-byte blocks; BlockDecrypt is its inverse under the same key.
BlockEncrypt(key, blk) ==
    [i \in 1..BlockSize |-> (blk[i] + key[i] + key[i + BlockSize]) % 256]
BlockDecrypt(key, blk) ==
    [i \in 1..BlockSize |-> (blk[i] + 512 - key[i] - key[i + BlockSize]) % 256]

\* PKCS#7 padding added by cipher.final()
Pkcs7Pad(bytes) ==
    LET n == BlockSize - (Len(bytes) % BlockSize)
    IN  bytes \o [i \in 1..n |-> n]

\* the padding check of decipher.final()
PaddingOk(bytes) ==
    /\ Len(bytes) >= BlockSize
    /\ LET n == bytes[Len(bytes)]
       IN  /\ n >= 1
           /\ n <= BlockSize
           /\ \A i \in (Len(bytes) - n + 1)..Len(bytes) : bytes[i] = n

Pkcs7Unpad(bytes) == SubSeq(bytes, 1, Len(bytes) - bytes[Len(bytes)])

RECURSIVE CbcEncrypt(_, _, _)
CbcEncrypt(key, prev, data) ==
    IF data = <<>> THEN <<>>
    ELSE LET c == BlockEncrypt(key, XorBlock(SubSeq(data, 1, BlockSize), prev))
         IN  c \o CbcEncrypt(key, c, SubSeq(data, BlockSize + 1, Len(data)))

RECURSIVE CbcDecrypt(_, _, _)
CbcDecrypt(key, prev, data) ==
    IF data = <<>> THEN <<>>
    ELSE LET c == SubSeq(data, 1, BlockSize)
         IN  XorBlock(BlockDecrypt(key, c), prev)
             \o CbcDecrypt(key, c, SubSeq(data, BlockSize + 1, Len(data)))

\* encrypt(text) with the IV that crypto.randomBytes(16) returned
EncryptWith(key, text, iv) ==
    ToHex(iv) \o <<":">> \o ToHex(CbcEncrypt(key, iv, Pkcs7Pad(Utf8Encode(text))))

encrypt(text, iv) == EncryptWith(ENCRYPTION_KEY, text, iv)

\* text.split(':'): the pieces between the delimiters
\* the index of the first d in text at or after i, Len(text) + 1 if none
RECURSIVE IndexOf(_, _, _)
IndexOf(text, d, i) ==
    IF i > Len(text) \/ text[i] = d THEN i ELSE IndexOf(text, d, i + 1)

RECURSIVE SplitFrom(_, _, _)
SplitFrom(text, d, i) ==
    LET j == IndexOf(text, d, i)
    IN  IF j > Len(text) THEN <<SubSeq(text, i, Len(text))>>
        ELSE <<SubSeq(text, i, j - 1)>> \o SplitFrom(text, d, j + 1)

Split(text, d) == SplitFrom(text, d, 1)

\* The body of decrypt's try block: [threw |-> TRUE] when any statement of it
\* throws, [threw |-> FALSE, value |-> decrypted] otherwise.
DecryptTry(key, text) ==
    LET parts == Split(text, ":")
        iv == FromHex(parts[1])
    IN  IF Len(iv) # BlockSize
        THEN [threw |-> TRUE, why |-> "invalid iv"]
        ELSE IF Len(parts) < 2
        THEN [threw |-> TRUE, why |-> "no data"]
        ELSE LET ct == FromHex(parts[2])
             IN  IF Len(ct) = 0 \/ Len(ct) % BlockSize # 0
                 THEN [threw |-> TRUE, why |-> "wrong final block length"]
                 ELSE LET padded == CbcDecrypt(key, iv, ct)
                      IN  IF ~PaddingOk(padded)
                          THEN [threw |-> TRUE, why |-> "bad decrypt"]
                          ELSE [threw |-> FALSE,
                                value |-> Utf8Decode(Pkcs7Unpad(padded))]

\* faulty variant: the catch block returns an empty string instead of its input
DecryptCallEmptyOnFailure(key, text) ==
    LET r == DecryptTry(key, text)
    IN  IF r.threw THEN [raised |-> FALSE, value |-> <<>>]
        ELSE [raised |-> FALSE, value |-> r.value]

\* decrypt(text): what the caller sees.  raised is whether an exception
\* leaves the function.
DecryptCall(key, text) ==
    LET r == DecryptTry(key, text)
    IN  IF r.threw THEN [raised |-> FALSE, value |-> text]
        ELSE [raised |-> FALSE, value |-> r.value]

decrypt(text) == DecryptCall(ENCRYPTION_KEY, text).value

(***************************************************************************)
(* JavaScript objects                                                      *)
(***************************************************************************)
Has(o, k) == k \in DOMAIN o                     \* o[k] !== undefined
With(o, k, v) == [x \in DOMAIN o \cup {k} |-> IF x = k THEN v ELSE o[x]]
Without(o, k) == [x \in DOMAIN o \ {k} |-> o[x]]
Truthy(o, k) == Has(o, k) /\ o[k] # <<>>        \* a string that is set and not ''
NoOptions == <<>>                               \* an object with no key set

(***************************************************************************)
(* Shell script generator (lib/shell.ts)                                   *)
(* An EnvVars object is the sequence of its <<key, value>> entries in      *)
(* insertion order; a script is a sequence of lines, a line a sequence of  *)
(* tokens: literal pieces of the templates, variable names, characters.    *)
(***************************************************************************)
ShellTypes == {"bash", "zsh", "fish", "powershell", "cmd"}

\* env[key] = value: replaces the value of a key in place, appends a new key
SetEnv(env, key, value) ==
    IF \E i \in 1..Len(env) : env[i][1] = key
    THEN [i \in 1..Len(env) |-> IF env[i][1] = key THEN <<key, value>> ELSE env[i]]
    ELSE Append(env, <<key, value>>)

\* Object.assign(env, extra)
RECURSIVE AssignAll(_, _)
AssignAll(env, extra) ==
    IF extra = <<>> THEN env
    ELSE AssignAll(SetEnv(env, Head(extra)[1], Head(extra)[2]), Tail(extra))

\* faulty variant: generateEnvVars in which the fields of the profile win over
\* the entries of extraEnv
GenerateEnvVarsFieldsWin(profile) ==
    LET e0 == IF Has(profile, "extraEnv") THEN AssignAll(<<>>, profile.extraEnv) ELSE <<>>
        e1 == IF Truthy(profile, "baseUrl")
              THEN SetEnv(e0, "ANTHROPIC_BASE_URL", profile.baseUrl) ELSE e0
        e2 == IF Truthy(profile, "apiKey")
              THEN SetEnv(e1, "ANTHROPIC_AUTH_TOKEN", profile.apiKey) ELSE e1
        e3 == IF Truthy(profile, "model")
              THEN SetEnv(e2, "ANTHROPIC_MODEL", profile.model) ELSE e2
    IN  IF Has(profile, "clearAnthropicKey") /\ profile.clearAnthropicKey
        THEN SetEnv(e3, "ANTHROPIC_API_KEY", <<>>) ELSE e3

\* faulty variant: generateEnvVars that falls back to a default model
GenerateEnvVarsDefaultModel(profile) ==
    LET e1 == IF Truthy(profile, "baseUrl")
              THEN SetEnv(<<>>, "ANTHROPIC_BASE_URL", profile.baseUrl) ELSE <<>>
        e2 == IF Truthy(profile, "apiKey")
              THEN SetEnv(e1, "ANTHROPIC_AUTH_TOKEN", profile.apiKey) ELSE e1
        e3 == SetEnv(e2, "ANTHROPIC_MODEL",
                     IF Truthy(profile, "model") THEN profile.model ELSE <<"default">>)
        e4 == IF Has(profile, "clearAnthropicKey") /\ profile.clearAnthropicKey
              THEN SetEnv(e3, "ANTHROPIC_API_KEY", <<>>) ELSE e3
    IN  IF Has(profile, "extraEnv") THEN AssignAll(e4, profile.extraEnv) ELSE e4

\* faulty variant: generateEnvVars that passes the credential on as ANTHROPIC_API_KEY
GenerateEnvVarsSetsApiKey(profile) ==
    LET e1 == IF Truthy(profile, "baseUrl")
              THEN SetEnv(<<>>, "ANTHROPIC_BASE_URL", profile.baseUrl) ELSE <<>>
        e2 == IF Truthy(profile, "apiKey")
              THEN SetEnv(e1, "ANTHROPIC_AUTH_TOKEN", profile.apiKey) ELSE e1
        e3 == IF Truthy(profile, "model")
              THEN SetEnv(e2, "ANTHROPIC_MODEL", profile.model) ELSE e2
        e4 == IF Has(profile, "clearAnthropicKey") /\ profile.clearAnthropicKey
              THEN SetEnv(e3, "ANTHROPIC_API_KEY", <<>>)
              ELSE IF Truthy(profile, "apiKey")
              THEN SetEnv(e3, "ANTHROPIC_API_KEY", profile.apiKey) ELSE e3
    IN  IF Has(profile, "extraEnv") THEN AssignAll(e4, profile.extraEnv) ELSE e4

generateEnvVars(profile) ==
    LET e1 == IF Truthy(profile, "baseUrl")
              THEN SetEnv(<<>>, "ANTHROPIC_BASE_URL", profile.baseUrl) ELSE <<>>
        e2 == IF Truthy(profile, "apiKey")
              THEN SetEnv(e1, "ANTHROPIC_AUTH_TOKEN", profile.apiKey) ELSE e1
        e3 == IF Truthy(profile, "model")
              THEN SetEnv(e2, "ANTHROPIC_MODEL", profile.model) ELSE e2
        e4 == IF Has(profile, "clearAnthropicKey") /\ profile.clearAnthropicKey
              THEN SetEnv(e3, "ANTHROPIC_API_KEY", <<>>) ELSE e3
    IN  IF Has(profile, "extraEnv") THEN AssignAll(e4, profile.extraEnv) ELSE e4

\* value.replace(/'/g, r): every ' replaced by the characters of r
RECURSIVE ReplaceQuotes(_, _)
ReplaceQuotes(value, r) ==
    IF value = <<>> THEN <<>>
    ELSE (IF Head(value) = "'" THEN r ELSE <<Head(value)>>)
         \o ReplaceQuotes(Tail(value), r)

\* new Date().toISOString()
RECURSIVE Decimal(_)
Decimal(n) ==
    IF n < 10 THEN <<HexLower[n + 1]>>
    ELSE Decimal(n \div 10) \o <<HexLower[(n % 10) + 1]>>
IsoTime(t) == <<"T">> \o Decimal(t)

BashUnset(key) == <<"unset ", key>>
BashExport(key, value) ==
    <<"export ", key, "=", "'">>
    \o ReplaceQuotes(value, <<"'", "\\", "'", "'">>) \o <<"'">>

FishErase(key) == <<"set -e ", key>>
\* faulty variant: fish assignment with the quoting of bash
FishSetBashQuoting(key, value) ==
    <<"set -gx ", key, " ", "'">>
    \o ReplaceQuotes(value, <<"'", "\\", "'", "'">>) \o <<"'">>

FishSet(key, value) ==
    <<"set -gx ", key, " ", "'">> \o ReplaceQuotes(value, <<"\\", "'">>) \o <<"'">>

PowerShellRemove(key) == <<"Remove-Item Env:\\", key, " -ErrorAction SilentlyContinue">>
PowerShellSet(key, value) ==
    <<"$env:", key, " = ", "'">> \o ReplaceQuotes(value, <<"'", "'">>) \o <<"'">>

CmdClear(key) == <<"set ", key, "=">>
CmdSet(key, value) == <<"set ", key, "=">> \o value

\* the statement one generator's loop pushes for one entry of env
EntryLine(gen, key, value) ==
    IF value = <<>>
    THEN CASE gen = "bash" -> BashUnset(key)
           [] gen = "fish" -> FishErase(key)
           [] gen = "powershell" -> PowerShellRemove(key)
           [] gen = "cmd" -> CmdClear(key)
    ELSE CASE gen = "bash" -> BashExport(key, value)
           [] gen = "fish" -> FishSet(key, value)
           [] gen = "powershell" -> PowerShellSet(key, value)
           [] gen = "cmd" -> CmdSet(key, value)

\* the lines pushed by the for loop over Object.entries(env)
EnvLines(gen, env) == [i \in 1..Len(env) |-> EntryLine(gen, env[i][1], env[i][2])]

generateBashScript(env, profile, t) ==
    << <<"# Claude Env - Profile: ">> \o profile.name,
       <<"# Generated: ">> \o IsoTime(t),
       <<>> >>
    \o EnvLines("bash", env)
    \o << <<>>,
          <<"# Active profile: ">> \o profile.name,
          <<"export ", "CCX_ACTIVE_PROFILE", "=", "'">> \o profile.name \o <<"'">> >>

\* faulty variant: a fish generator that writes the tracking statement first
GenerateFishScriptTrackingFirst(env, profile, t) ==
    << <<"# Claude Env - Profile: ">> \o profile.name,
       <<"# Generated: ">> \o IsoTime(t),
       <<>>,
       <<"set -gx ", "CCX_ACTIVE_PROFILE", " ", "'">> \o profile.name \o <<"'">> >>
    \o EnvLines("fish", env)
    \o << <<>> >>

generateFishScript(env, profile, t) ==
    << <<"# Claude Env - Profile: ">> \o profile.name,
       <<"# Generated: ">> \o IsoTime(t),
       <<>> >>
    \o EnvLines("fish", env)
    \o << <<>>,
          <<"set -gx ", "CCX_ACTIVE_PROFILE", " ", "'">> \o profile.name \o <<"'">> >>

generatePowerShellScript(env, profile, t) ==
    << <<"# Claude Env - Profile: ">> \o profile.name,
       <<"# Generated: ">> \o IsoTime(t),
       <<>> >>
    \o EnvLines("powershell", env)
    \o << <<>>,
          <<"$env:", "CCX_ACTIVE_PROFILE", " = ", "'">> \o profile.name \o <<"'">> >>

generateCmdScript(env, profile, t) ==
    << <<"@REM Claude Env - Profile: ">> \o profile.name,
       <<"@REM Generated: ">> \o IsoTime(t),
       <<>> >>
    \o EnvLines("cmd", env)
    \o << <<>>,
          <<"set ", "CCX_ACTIVE_PROFILE", "=">> \o profile.name >>

\* the lines of generateShellScript(profile, shell), before join('\n')
ScriptLines(profile, shell, t) ==
    LET env == generateEnvVars(profile)
    IN  CASE shell \in {"bash", "zsh"} -> generateBashScript(env, profile, t)
          [] shell = "fish" -> generateFishScript(env, profile, t)
          [] shell = "powershell" -> generatePowerShellScript(env, profile, t)
          [] shell = "cmd" -> generateCmdScript(env, profile, t)
          [] OTHER -> generateBashScript(env, profile, t)

\* lines.join('\n')
RECURSIVE JoinLines(_)
JoinLines(lines) ==
    IF lines = <<>> THEN <<>>
    ELSE IF Len(lines) = 1 THEN lines[1]
    ELSE lines[1] \o <<"\n">> \o JoinLines(Tail(lines))

generateShellScript(profile, shell, t) == JoinLines(ScriptLines(profile, shell, t))

varsToUnset ==
    <<"ANTHROPIC_BASE_URL", "ANTHROPIC_AUTH_TOKEN", "ANTHROPIC_MODEL", "CCX_ACTIVE_PROFILE">>

\* faulty variant: a reset that also clears ANTHROPIC_API_KEY
ResetLinesWithApiKey(shell) ==
    LET all == Append(varsToUnset, "ANTHROPIC_API_KEY")
    IN  CASE shell = "fish" -> [i \in 1..Len(all) |-> FishErase(all[i])]
          [] shell = "powershell" -> [i \in 1..Len(all) |-> PowerShellRemove(all[i])]
          [] shell = "cmd" -> [i \in 1..Len(all) |-> CmdClear(all[i])]
          [] OTHER -> [i \in 1..Len(all) |-> BashUnset(all[i])]

ResetLines(shell) ==
    CASE shell \in {"bash", "zsh"} -> [i \in 1..Len(varsToUnset) |-> BashUnset(varsToUnset[i])]
      [] shell = "fish" -> [i \in 1..Len(varsToUnset) |-> FishErase(varsToUnset[i])]
      [] shell = "powershell" ->
            [i \in 1..Len(varsToUnset) |-> PowerShellRemove(varsToUnset[i])]
      [] shell = "cmd" -> [i \in 1..Len(varsToUnset) |-> CmdClear(varsToUnset[i])]
      [] OTHER -> [i \in 1..Len(varsToUnset) |-> BashUnset(varsToUnset[i])]

generateResetScript(shell) == JoinLines(ResetLines(shell))

\* String.prototype.includes
Includes(text, sub) ==
    \E i \in 1..(Len(text) - Len(sub) + 1) : SubSeq(text, i, i + Len(sub) - 1) = sub

\* detectShell() given process.env.SHELL || process.env.ComSpec || '' and
\* process.platform
\* faulty variant: detectShell that looks for bash before zsh
DetectShellBashFirst(shellEnv, platform) ==
    IF Includes(shellEnv, <<"f","i","s","h">>) THEN "fish"
    ELSE IF Includes(shellEnv, <<"b","a","s","h">>) THEN "bash"
    ELSE IF Includes(shellEnv, <<"z","s","h">>) THEN "zsh"
    ELSE IF Includes(shellEnv, <<"p","o","w","e","r","s","h","e","l","l">>)
            \/ Includes(shellEnv, <<"p","w","s","h">>) THEN "powershell"
    ELSE IF platform = "win32" THEN "powershell"
    ELSE "bash"

detectShell(shellEnv, platform) ==
    IF Includes(shellEnv, <<"f","i","s","h">>) THEN "fish"
    ELSE IF Includes(shellEnv, <<"z","s","h">>) THEN "zsh"
    ELSE IF Includes(shellEnv, <<"b","a","s","h">>) THEN "bash"
    ELSE IF Includes(shellEnv, <<"p","o","w","e","r","s","h","e","l","l">>)
            \/ Includes(shellEnv, <<"p","w","s","h">>) THEN "powershell"
    ELSE IF platform = "win32" THEN "powershell"
    ELSE "bash"

(***************************************************************************)
(* Provider templates (templates/providers.ts)                             *)
(***************************************************************************)
providerTemplates ==
    << [name |-> "official",
        description |-> <<"Official Anthropic API - Uses your ANTHROPIC_API_KEY">>,
        baseUrl |-> <<"https://api.anthropic.com">>,
        defaultModel |-> <<"claude-sonnet-4-20250514">>,
        requiresApiKey |-> FALSE,
        clearAnthropicKey |-> FALSE],
       [name |-> "openrouter",
        description |-> <<"Access multiple AI models through OpenRouter">>,
        baseUrl |-> <<"https://openrouter.ai/api">>,
        defaultModel |-> <<"anthropic/claude-sonnet-4">>,
        requiresApiKey |-> TRUE,
        clearAnthropicKey |-> TRUE],
       [name |-> "ollama",
        description |-> <<"Local Ollama instance for offline AI">>,
        baseUrl |-> <<"http://localhost", ":", "11434/v1">>,
        defaultModel |-> <<"qwen2.5-coder", ":", "latest">>,
        requiresApiKey |-> FALSE,
        clearAnthropicKey |-> TRUE],
       [name |-> "custom",
        description |-> <<"Configure your own custom API endpoint">>,
        baseUrl |-> <<>>,
        requiresApiKey |-> TRUE,
        clearAnthropicKey |-> TRUE] >>

\* providerTemplates.find(t => t.name === name)
getTemplate(name) ==
    IF \E i \in 1..Len(providerTemplates) : providerTemplates[i].name = name
    THEN [found |-> TRUE,
          template |-> providerTemplates[
              CHOOSE i \in 1..Len(providerTemplates) :
                  /\ providerTemplates[i].name = name
                  /\ \A j \in 1..(i - 1) : providerTemplates[j].name # name]]
    ELSE [found |-> FALSE]

(***************************************************************************)
(* The persisted document and the profile store (lib/config.ts)            *)
(***************************************************************************)
Null == <<"null">>          \* JSON null, where a name may stand
NoProfiles == <<>>          \* profiles: {}

Platforms == {"linux", "win32"}

DefaultSettings(platform) ==
    [encryptionEnabled |-> TRUE,
     defaultShell |-> IF platform = "win32" THEN "powershell" ELSE "bash"]

\* the document as config.store holds it
Doc == [profiles |-> profiles, activeProfile |-> activeProfile, settings |-> settings]

getProfiles(doc) == doc.profiles

\* what the object profiles inherits from Object.prototype: profiles is made
\* by JSON.parse or by the literal {} of the defaults, so profiles[name] and
\* `name in profiles` see the inherited properties as well as the stored
\* records.  profiles['constructor'] is the function Object: its name is
\* 'Object' and it has no other field of a profile.
InheritedNames == {<<"constructor">>}

ObjectPrototype == [n \in InheritedNames |-> [name |-> <<"Object">>]]

\* profiles[name]: [found |-> FALSE] stands for undefined
Lookup(stored, name) ==
    IF name \in DOMAIN stored THEN [found |-> TRUE, profile |-> stored[name]]
    ELSE IF name \in InheritedNames
    THEN [found |-> TRUE, profile |-> ObjectPrototype[name]]
    ELSE [found |-> FALSE]

\* name in getProfiles()
profileExists(doc, name) ==
    name \in DOMAIN getProfiles(doc) \/ name \in InheritedNames

\* faulty variant: getProfile that returns the record as stored
GetProfileStored(doc, name) ==
    IF name \in DOMAIN doc.profiles
    THEN [found |-> TRUE, profile |-> doc.profiles[name]]
    ELSE [found |-> FALSE]

\* getProfile(name): [found |-> FALSE] stands for undefined
getProfile(doc, name) ==
    LET got == Lookup(getProfiles(doc), name)
    IN  IF got.found
        THEN [found |-> TRUE,
              profile |-> IF Truthy(got.profile, "apiKey")
                          THEN With(got.profile, "apiKey", decrypt(got.profile.apiKey))
                          ELSE got.profile]
        ELSE [found |-> FALSE]

\* faulty variant: saveProfile that stores the profile as passed in
SaveProfilePlain(doc, profile, iv, t) ==
    [doc EXCEPT !.profiles = With(@, profile.name, With(profile, "updatedAt", t))]

\* faulty variant: saveProfile that merges the profile into the stored record
SaveProfileMerge(doc, profile, iv, t) ==
    LET toSave == IF Truthy(profile, "apiKey") /\ doc.settings.encryptionEnabled
                  THEN With(profile, "apiKey", encrypt(profile.apiKey, iv))
                  ELSE profile
        stamped == With(toSave, "updatedAt", t)
        old == IF profile.name \in DOMAIN doc.profiles
               THEN doc.profiles[profile.name] ELSE stamped
        merged == [f \in DOMAIN old \cup DOMAIN stamped |->
                      IF f \in DOMAIN stamped THEN stamped[f] ELSE old[f]]
    IN  [doc EXCEPT !.profiles = With(@, profile.name, merged)]

\* saveProfile(profile) at time t, iv being what crypto.randomBytes returns
\* if encrypt is called
saveProfile(doc, profile, iv, t) ==
    LET toSave == IF Truthy(profile, "apiKey") /\ doc.settings.encryptionEnabled
                  THEN With(profile, "apiKey", encrypt(profile.apiKey, iv))
                  ELSE profile
    IN  [doc EXCEPT !.profiles = With(@, profile.name, With(toSave, "updatedAt", t))]

\* faulty variant: deleteProfile that leaves the active pointer alone
DeleteProfileKeepActive(doc, name) ==
    IF name \in DOMAIN doc.profiles
    THEN [doc |-> [doc EXCEPT !.profiles = Without(@, name)], ret |-> TRUE]
    ELSE [doc |-> doc, ret |-> FALSE]

\* faulty variant: deleteProfile that clears the active pointer of a name not stored
DeleteProfileClearAlways(doc, name) ==
    [doc |-> [doc EXCEPT !.profiles = Without(@, name),
                         !.activeProfile = IF @ = name THEN Null ELSE @],
     ret |-> name \in DOMAIN doc.profiles]

\* deleteProfile(name): the document afterwards and the value returned
deleteProfile(doc, name) ==
    IF Lookup(getProfiles(doc), name).found
    THEN [doc |-> [doc EXCEPT !.profiles = Without(@, name),
                              !.activeProfile = IF @ = name THEN Null ELSE @],
          ret |-> TRUE]
    ELSE [doc |-> doc, ret |-> FALSE]

getActiveProfile(doc) == doc.activeProfile

setActiveProfile(doc, name) == [doc EXCEPT !.activeProfile = name]

(***************************************************************************)
(* Profile commands (commands/profile.ts)                                  *)
(* A handler maps the document and its arguments to the document it        *)
(* leaves, how it ended (ok, or the failure before process.exit(1)) and    *)
(* what it printed on stdout.                                              *)
(***************************************************************************)
Ended(doc, outcome, out) == [doc |-> doc, outcome |-> outcome, out |-> out]
NoOutput == [kind |-> "none"]

\* a || b for two optional strings: [set |-> FALSE] stands for undefined
Opt(o, k) == IF Has(o, k) THEN [set |-> TRUE, v |-> o[k]] ELSE [set |-> FALSE]
OrElse(a, b) == IF a.set /\ a.v # <<>> THEN a ELSE b
\* obj with key k set to an optional value
WithOpt(o, k, a) == IF a.set THEN With(o, k, a.v) ELSE o

\* listProfiles(): the names in sorted order with the active marker
listProfiles(doc) ==
    Ended(doc, "ok",
          [kind |-> "list",
           names |-> DOMAIN getProfiles(doc),
           active |-> {n \in DOMAIN getProfiles(doc) : n = getActiveProfile(doc)}])

showProfile(doc, name) ==
    LET got == getProfile(doc, name)
    IN  IF ~got.found THEN Ended(doc, "NotFound", NoOutput)
        ELSE Ended(doc, "ok",
                   [kind |-> "show",
                    name |-> got.profile.name,
                    apiKey |-> IF Truthy(got.profile, "apiKey")
                               THEN "********" ELSE "(not set)"])

createProfile(doc, name, options, iv, t) ==
    IF profileExists(doc, name) THEN Ended(doc, "Validation", NoOutput)
    ELSE IF Has(options, "template")
    THEN LET found == getTemplate(options.template)
             template == found.template
             profile ==
                WithOpt(WithOpt(WithOpt(
                    [name |-> name,
                     provider |-> template.name,
                     clearAnthropicKey |->
                        IF Has(options, "clearKey") THEN options.clearKey
                        ELSE template.clearAnthropicKey,
                     createdAt |-> t,
                     updatedAt |-> t],
                    "description",
                    OrElse(Opt(options, "description"), Opt(template, "description"))),
                    "baseUrl", OrElse(Opt(options, "baseUrl"), Opt(template, "baseUrl"))),
                    "model", OrElse(Opt(options, "model"), Opt(template, "defaultModel")))
         IN  IF ~found.found THEN Ended(doc, "NotFound", NoOutput)
             ELSE Ended(saveProfile(doc, WithOpt(profile, "apiKey", Opt(options, "apiKey")),
                                    iv, t),
                        "ok", NoOutput)
    ELSE IF ~Truthy(options, "baseUrl") THEN Ended(doc, "Validation", NoOutput)
    ELSE LET profile ==
                WithOpt(WithOpt(WithOpt(
                    [name |-> name,
                     provider |-> "custom",
                     baseUrl |-> options.baseUrl,
                     clearAnthropicKey |->
                        IF Has(options, "clearKey") THEN options.clearKey ELSE TRUE,
                     createdAt |-> t,
                     updatedAt |-> t],
                    "description", Opt(options, "description")),
                    "model", Opt(options, "model")),
                    "apiKey", Opt(options, "apiKey"))
         IN  Ended(saveProfile(doc, profile, iv, t), "ok", NoOutput)

\* faulty variant: editProfile that edits the record as stored, without
\* decrypting the credential
EditProfileStored(doc, name, options, iv, t) ==
    LET got == GetProfileStored(doc, name)
        p1 == WithOpt(got.profile, "baseUrl", Opt(options, "baseUrl"))
        p2 == WithOpt(p1, "model", Opt(options, "model"))
        p3 == WithOpt(p2, "apiKey", Opt(options, "apiKey"))
        p4 == WithOpt(p3, "description", Opt(options, "description"))
        p5 == IF Has(options, "clearKey")
              THEN With(p4, "clearAnthropicKey", options.clearKey) ELSE p4
    IN  IF ~got.found THEN Ended(doc, "NotFound", NoOutput)
        ELSE Ended(saveProfile(doc, p5, iv, t), "ok", NoOutput)

editProfile(doc, name, options, iv, t) ==
    LET got == getProfile(doc, name)
        p1 == WithOpt(got.profile, "baseUrl", Opt(options, "baseUrl"))
        p2 == WithOpt(p1, "model", Opt(options, "model"))
        p3 == WithOpt(p2, "apiKey", Opt(options, "apiKey"))
        p4 == WithOpt(p3, "description", Opt(options, "description"))
        p5 == IF Has(options, "clearKey")
              THEN With(p4, "clearAnthropicKey", options.clearKey) ELSE p4
    IN  IF ~got.found THEN Ended(doc, "NotFound", NoOutput)
        ELSE Ended(saveProfile(doc, p5, iv, t), "ok", NoOutput)

\* faulty variant: a delete command that does not wait for --force
DeleteProfileCommandUnforced(doc, name, force) ==
    IF ~profileExists(doc, name) THEN Ended(doc, "NotFound", NoOutput)
    ELSE Ended(deleteProfile(doc, name).doc, "ok", NoOutput)

deleteProfileCommand(doc, name, force) ==
    IF ~profileExists(doc, name) THEN Ended(doc, "NotFound", NoOutput)
    ELSE IF ~force THEN Ended(doc, "ok", [kind |-> "confirm", name |-> name])
    ELSE Ended(deleteProfile(doc, name).doc, "ok", NoOutput)

\* faulty variant: useProfile that records the name before it looks the profile up
UseProfileActivatesFirst(doc, name, shell, shellEnv, platform, t) ==
    LET got == getProfile(doc, name)
        detectedShell == IF shell # "" THEN shell ELSE detectShell(shellEnv, platform)
    IN  IF ~got.found THEN Ended(setActiveProfile(doc, name), "NotFound", NoOutput)
        ELSE Ended(setActiveProfile(doc, name), "ok",
                   [kind |-> "script", shell |-> detectedShell,
                    lines |-> ScriptLines(got.profile, detectedShell, t),
                    text |-> generateShellScript(got.profile, detectedShell, t)])

\* useProfile(name, shell): shell = "" stands for no --shell option
useProfile(doc, name, shell, shellEnv, platform, t) ==
    LET got == getProfile(doc, name)
        detectedShell == IF shell # "" THEN shell ELSE detectShell(shellEnv, platform)
    IN  IF ~got.found THEN Ended(doc, "NotFound", NoOutput)
        ELSE Ended(setActiveProfile(doc, name), "ok",
                   [kind |-> "script", shell |-> detectedShell,
                    lines |-> ScriptLines(got.profile, detectedShell, t),
                    text |-> generateShellScript(got.profile, detectedShell, t)])

\* faulty variant: resetEnvironment that leaves the active pointer alone
ResetEnvironmentKeepsActive(doc, shell, shellEnv, platform) ==
    LET detectedShell == IF shell # "" THEN shell ELSE detectShell(shellEnv, platform)
    IN  Ended(doc, "ok",
              [kind |-> "script", shell |-> detectedShell,
               lines |-> ResetLines(detectedShell),
               text |-> generateResetScript(detectedShell)])

\* resetEnvironment(shell): shell = "" stands for no --shell option
resetEnvironment(doc, shell, shellEnv, platform) ==
    LET detectedShell == IF shell # "" THEN shell ELSE detectShell(shellEnv, platform)
    IN  Ended(setActiveProfile(doc, Null), "ok",
              [kind |-> "script", shell |-> detectedShell,
               lines |-> ResetLines(detectedShell),
               text |-> generateResetScript(detectedShell)])

\* faulty variant: export prints the profile as getProfile returned it
ExportedWithKey(profile) == profile

\* { ...profile, apiKey: undefined } as JSON.stringify prints it: the members
\* whose value is not undefined
Exported(profile) == Without(profile, "apiKey")

exportProfile(doc, name) ==
    LET got == getProfile(doc, name)
    IN  IF ~got.found THEN Ended(doc, "NotFound", NoOutput)
        ELSE Ended(doc, "ok", [kind |-> "json", members |-> Exported(got.profile)])

\* importProfile(jsonStr, name).  jsonStr is what JSON.parse makes of it:
\* [kind |-> "malformed"] (it throws), [kind |-> "scalar"] (null, a number, a
\* string: reading or setting .name fails or gives undefined) or
\* [kind |-> "object", value |-> the object].  name = <<>> stands for no
\* --name option.
importProfile(doc, json, name, iv, t) ==
    IF json.kind # "object" THEN Ended(doc, "Validation", NoOutput)
    ELSE LET imported == IF name # <<>> THEN With(json.value, "name", name)
                         ELSE json.value
             stamped == With(With(imported, "createdAt", t), "updatedAt", t)
         IN  IF ~Truthy(imported, "name") THEN Ended(doc, "Validation", NoOutput)
             ELSE IF profileExists(doc, imported.name)
             THEN Ended(doc, "Validation", NoOutput)
             ELSE Ended(saveProfile(doc, stamped, iv, t), "ok", NoOutput)

(***************************************************************************)
(* The store and the commands as a state machine: one invocation of the    *)
(* CLI, or one call of an exported store function, per step.  A step draws *)
(* its arguments and what the environment supplies (the random IV, the     *)
(* ambient shell) and ends in one of the results the handler can have.     *)
(***************************************************************************)
MaxSteps == 3       \* operations in one run

NameA == <<"a">>
NameB == <<"b">>
Names == {NameA, NameB}

Url1 == <<"https://api.x.com">>
Url2 == <<"http://localhost", ":", "8080/v1">>
Model1 == <<"m1">>
Model2 == <<"m", "'", "2">>
Key1 == <<"s", "k", "-", "1", "'", "2">>
Key2 == <<"k", "U+00E9">>
Desc1 == <<"my profile">>

\* values crypto.randomBytes(16) may return
IvChoices ==
    { [i \in 1..BlockSize |-> 0],
      [i \in 1..BlockSize |-> 17 * (i - 1)],
      [i \in 1..BlockSize |-> 255] }

StoreIvs == {iv \in IvChoices : iv[2] # 255}
\* the one drawn in an invocation of the CLI
CommandIvs == {iv \in IvChoices : iv[2] = 17}

\* arguments of a direct saveProfile(profile) call: profiles built earlier
\* (createdAt and updatedAt lie in the past)
BareProfile(n) ==
    [name |-> n, provider |-> "custom", baseUrl |-> Url1,
     clearAnthropicKey |-> TRUE, createdAt |-> 0, updatedAt |-> 0]

SaveInputs ==
    UNION { { BareProfile(n),
              With(With(With(BareProfile(n), "apiKey", <<>>), "description", Desc1),
                   "clearAnthropicKey", FALSE),
              With(With(With(BareProfile(n), "apiKey", Key2), "model", Model1),
                   "extraEnv", << <<"FOO", <<"x">> >> >>) } : n \in Names }

CreateOptions ==
    { NoOptions,
      [template |-> "official"],
      [template |-> "nosuch"],
      [template |-> "openrouter", apiKey |-> Key1, clearKey |-> FALSE],
      [baseUrl |-> Url1, apiKey |-> Key2, model |-> Model1, description |-> Desc1] }

EditOptions ==
    { NoOptions,
      [apiKey |-> Key2],
      [baseUrl |-> Url2, model |-> Model2, clearKey |-> FALSE] }

\* the JSON of an import without a name, of profile a with a credential, and
\* of profile b with extra environment variables
JsonNoName ==
    [kind |-> "object",
     value |-> [provider |-> "custom", baseUrl |-> Url1, clearAnthropicKey |-> TRUE]]
\* an object with a name and without baseUrl
JsonNoUrl ==
    [kind |-> "object",
     value |-> [name |-> NameB, provider |-> "custom", clearAnthropicKey |-> TRUE]]
JsonA ==
    [kind |-> "object",
     value |-> [name |-> NameA, provider |-> "custom", baseUrl |-> Url1,
                clearAnthropicKey |-> TRUE, apiKey |-> Key1]]
JsonB ==
    [kind |-> "object",
     value |-> [name |-> NameB, provider |-> "custom", baseUrl |-> Url2,
                clearAnthropicKey |-> FALSE,
                extraEnv |-> << <<"ANTHROPIC_AUTH_TOKEN", <<"t">> >>,
                                <<"FOO", <<>> >> >>]]

\* <<json, --name option>> of an import; <<>> stands for no --name
ImportArgs ==
    { <<[kind |-> "malformed"], <<>> >>,
      <<[kind |-> "scalar"], NameB>>,
      <<JsonNoName, <<>> >>,
      <<JsonNoName, NameB>>,
      <<JsonNoUrl, <<>> >>,
      <<JsonA, <<>> >>,
      <<JsonB, <<>> >> }

\* process.env.SHELL || process.env.ComSpec || ''
\* and the --shell option ("" stands for none) of a use or reset
ShellArgs == { <<"", <<>> >>, <<"fish", <<"/", "b", "i", "n", "/", "z", "s", "h">> >> }

Platform == IF settings.defaultShell = "powershell" THEN "win32" ELSE "linux"

StoreInit ==
    /\ profiles = NoProfiles
    /\ activeProfile = Null
    /\ settings \in {DefaultSettings(pf) : pf \in Platforms}
    /\ now = 1
    /\ last = [op |-> "none", outcome |-> "ok"]
    /\ stdout = NoOutput

\* the invocation ends: the document it leaves, what it was, what it printed
Finish(r, call) ==
    /\ profiles' = r.doc.profiles
    /\ activeProfile' = r.doc.activeProfile
    /\ settings' = r.doc.settings
    /\ now' = now + 1
    /\ last' = call
    /\ stdout' = r.out
    /\ UNCHANGED harnessVars

SaveProfileCall ==
    /\ now <= MaxSteps
    /\ \E p \in SaveInputs :
          \E r \in {Ended(saveProfile(Doc, p, iv, now), "ok", NoOutput) : iv \in StoreIvs} :
            Finish(r,
                   [op |-> "saveProfile", outcome |-> "ok", profile |-> p, at |-> now,
                    replaced |-> profileExists(Doc, p.name),
                    dropped |-> IF profileExists(Doc, p.name)
                                THEN DOMAIN profiles[p.name] \ DOMAIN p ELSE {}])

DeleteProfileCall ==
    /\ now <= MaxSteps
    /\ \E n \in Names :
            LET r == deleteProfile(Doc, n)
            IN  Finish(Ended(r.doc, "ok", NoOutput),
                       [op |-> "deleteProfile", outcome |-> "ok", name |-> n, ret |-> r.ret,
                        afterSetActive |-> last.op = "setActiveProfile" /\ last.name = n])

SetActiveProfileCall ==
    /\ now <= MaxSteps
    /\ \E n \in Names \cup {Null} :
            Finish(Ended(setActiveProfile(Doc, n), "ok", NoOutput),
                   [op |-> "setActiveProfile", outcome |-> "ok", name |-> n])

ListCommand ==
    /\ now <= MaxSteps
    /\ LET r == listProfiles(Doc)
        IN  Finish(r, [op |-> "list", outcome |-> r.outcome])

ShowCommand ==
    /\ now <= MaxSteps
    /\ \E n \in Names :
            LET r == showProfile(Doc, n)
            IN  Finish(r, [op |-> "show", outcome |-> r.outcome, name |-> n])

\* the options object commander hands to the action of `create`: --clear-key
\* is declared with the default true, so clearKey is true unless
\* --no-clear-key is given (clearKey |-> FALSE among the flags)
CreateFlags(flags) ==
    With(flags, "clearKey", IF Has(flags, "clearKey") THEN flags.clearKey ELSE TRUE)

CreateCommand ==
    /\ now <= MaxSteps
    /\ \E n \in Names, o \in CreateOptions :
          \E r \in {createProfile(Doc, n, CreateFlags(o), iv, now) : iv \in CommandIvs} :
            Finish(r, [op |-> "create", outcome |-> r.outcome, name |-> n, options |-> o])

EditCommand ==
    /\ now <= MaxSteps
    /\ \E n \in Names, o \in EditOptions :
          \E r \in {editProfile(Doc, n, o, iv, now) : iv \in CommandIvs} :
            Finish(r, [op |-> "edit", outcome |-> r.outcome, name |-> n, options |-> o])

DeleteCommand ==
    /\ now <= MaxSteps
    /\ \E n \in Names, force \in BOOLEAN :
            LET r == deleteProfileCommand(Doc, n, force)
            IN  Finish(r, [op |-> "delete", outcome |-> r.outcome, name |-> n,
                           force |-> force])

UseCommand ==
    /\ now <= MaxSteps
    /\ \E n \in Names, sh \in ShellArgs :
            LET r == useProfile(Doc, n, sh[1], sh[2], Platform, now)
            IN  Finish(r, [op |-> "use", outcome |-> r.outcome, name |-> n,
                           shell |-> sh[1]])

ResetCommand ==
    /\ now <= MaxSteps
    /\ \E sh \in ShellArgs :
            LET r == resetEnvironment(Doc, sh[1], sh[2], Platform)
            IN  Finish(r, [op |-> "reset", outcome |-> r.outcome, shell |-> sh[1]])

ExportCommand ==
    /\ now <= MaxSteps
    /\ \E n \in Names :
            LET r == exportProfile(Doc, n)
            IN  Finish(r, [op |-> "export", outcome |-> r.outcome, name |-> n])

ImportCommand ==
    /\ now <= MaxSteps
    /\ \E a \in ImportArgs :
          \E r \in {importProfile(Doc, a[1], a[2], iv, now) : iv \in CommandIvs} :
            Finish(r, [op |-> "import", outcome |-> r.outcome, json |-> a[1],
                       name |-> a[2]])

\* use, delete and create with the name of an inherited property
UseInheritedCommand ==
    /\ now <= MaxSteps
    /\ \E n \in InheritedNames, sh \in ShellArgs :
            LET r == useProfile(Doc, n, sh[1], sh[2], Platform, now)
            IN  Finish(r, [op |-> "use", outcome |-> r.outcome, name |-> n,
                           shell |-> sh[1]])

DeleteInheritedCommand ==
    /\ now <= MaxSteps
    /\ \E n \in InheritedNames, force \in BOOLEAN :
            LET r == deleteProfileCommand(Doc, n, force)
            IN  Finish(r, [op |-> "delete", outcome |-> r.outcome, name |-> n,
                           force |-> force])

CreateInheritedCommand ==
    /\ now <= MaxSteps
    /\ \E n \in InheritedNames :
          \E r \in {createProfile(Doc, n, CreateFlags([baseUrl |-> Url1]), iv, now) :
                        iv \in CommandIvs} :
            Finish(r, [op |-> "create", outcome |-> r.outcome, name |-> n,
                       options |-> [baseUrl |-> Url1]])

Init ==
    /\ StoreInit
    /\ cEnc = [made |-> FALSE]
    /\ cPrev = [made |-> FALSE]
    /\ cDec = [made |-> FALSE]
    /\ emitted = [made |-> FALSE, op |-> "none"]
    /\ race = NoRace
    /\ shells = NoShells

NextApi == SaveProfileCall \/ DeleteProfileCall \/ SetActiveProfileCall

NextCli ==
    \/ ListCommand
    \/ ShowCommand
    \/ CreateCommand
    \/ EditCommand
    \/ DeleteCommand
    \/ UseCommand
    \/ ResetCommand
    \/ ExportCommand
    \/ ImportCommand

Next == NextApi \/ NextCli

\* sequential invocations of the CLI
Spec == Init /\ [][NextCli]_vars

\* direct calls of the store functions
SpecStore == Init /\ [][NextApi]_vars

\* both
SpecAll == Init /\ [][Next]_vars

\* sequential invocations of the CLI, the names of inherited properties
\* among the names given
NextCliAnyName ==
    \/ NextCli
    \/ UseInheritedCommand
    \/ DeleteInheritedCommand
    \/ CreateInheritedCommand

SpecAnyName == Init /\ [][NextCliAnyName]_vars

\* the store functions and the commands that write profiles
NextWrites == NextApi \/ CreateCommand \/ EditCommand \/ ImportCommand
SpecWrites == Init /\ [][NextWrites]_vars

(***************************************************************************)
(* Calls of encrypt and decrypt on chosen inputs                           *)
(***************************************************************************)
\* credential strings: empty, ASCII, with a quote, non-ASCII (2, 3 and 4
\* byte characters), exactly one block long, longer than one block
Credentials ==
    { <<>>,
      <<"k">>,
      <<"s", "k", "-", "1", "'", "2">>,
      <<"U+00E9">>,
      <<"k", "U+20AC", "U+1F511">>,
      HexLower,
      HexLower \o <<"k">> }

NotARecord ==
    <<"n","o","t","-","a","-","v","a","l","i","d","-","r","e","c","o","r","d">>

DropDelimiter(r) == SelectSeq(r, LAMBDA c : c # ":")

\* inputs of decrypt derived from a record r that encrypt(plain, iv) returned,
\* each with the kind of input it is
Derived(r, plain, iv) ==
    { [kind |-> "record", text |-> r],
      [kind |-> "no delimiter", text |-> DropDelimiter(r)],
      [kind |-> "non-hex iv", text |-> <<"k">> \o Tail(r)],
      [kind |-> "short iv", text |-> SubSeq(r, 3, Len(r))],
      [kind |-> "non-hex ciphertext", text |-> SubSeq(r, 1, Len(r) - 1) \o <<"k">>],
      [kind |-> "truncated digit", text |-> SubSeq(r, 1, Len(r) - 1)],
      [kind |-> "truncated byte", text |-> SubSeq(r, 1, Len(r) - 2)],
      [kind |-> "truncated block", text |-> SubSeq(r, 1, Len(r) - 2 * BlockSize)],
      [kind |-> "junk after iv",
       text |-> SubSeq(r, 1, 2 * BlockSize) \o <<"k">>
                \o SubSeq(r, 2 * BlockSize + 1, Len(r))],
      [kind |-> "extra delimiter", text |-> r \o <<":">> \o <<"k">>],
      [kind |-> "different key",
       text |-> EncryptWith(DeriveKey("foreign"), plain, iv)] }

DecryptInputs ==
    {[kind |-> "literal", text |-> NotARecord]}
    \cup {[kind |-> "plaintext", text |-> c] : c \in Credentials}
    \cup (IF cEnc.made THEN Derived(cEnc.record, cEnc.plain, cEnc.iv) ELSE {})

\* the kinds of input on which a statement of decrypt's try block always throws
FailingKinds ==
    {"literal", "no delimiter", "non-hex iv", "short iv", "non-hex ciphertext",
     "truncated digit", "truncated byte"}

CipherInit ==
    /\ StoreInit
    /\ settings = DefaultSettings("linux")
    /\ cEnc = [made |-> FALSE]
    /\ cPrev = [made |-> FALSE]
    /\ cDec = [made |-> FALSE]
    /\ emitted = [made |-> FALSE, op |-> "none"]
    /\ race = NoRace
    /\ shells = NoShells

EncryptStep ==
    \E s \in Credentials, iv \in IvChoices :
        /\ ~cDec.made
        /\ cEnc' = [made |-> TRUE, plain |-> s, iv |-> iv, record |-> encrypt(s, iv)]
        /\ cPrev' = cEnc
        /\ cDec' = [made |-> FALSE]
        /\ UNCHANGED <<storeVars, emitted>>
        /\ UNCHANGED liveVars

DecryptStep ==
    \E in \in DecryptInputs :
        LET r == DecryptCall(ENCRYPTION_KEY, in.text)
        IN  /\ ~cDec.made
            /\ cDec' = [made |-> TRUE, kind |-> in.kind, input |-> in.text,
                        threw |-> DecryptTry(ENCRYPTION_KEY, in.text).threw,
                        raised |-> r.raised, value |-> r.value]
            /\ UNCHANGED <<cEnc, cPrev, emitted>>
            /\ UNCHANGED storeVars
            /\ UNCHANGED liveVars

CipherNext == EncryptStep \/ DecryptStep

SpecCipher == CipherInit /\ [][CipherNext]_vars

(***************************************************************************)
(* Calls of generateShellScript on chosen profiles and dialects            *)
(***************************************************************************)
QuotedName == <<"i", "t", "'", "s">>
QuotedUrl == <<"http://h/", "'", "x">>

ExtraEnvs ==
    { << <<"FOO", <<"x", "'", "y">> >>, <<"BAR", <<>> >> >>,
      << <<"ANTHROPIC_AUTH_TOKEN", <<"t">> >>, <<"ANTHROPIC_MODEL", <<>> >> >>,
      << <<"ANTHROPIC_API_KEY", <<"o", "'", "k">> >> >> }

\* profiles as getProfile returns them (the credential decrypted); each can be
\* stored by an import
ShellProfiles ==
    LET base == { [name |-> n, provider |-> "custom", baseUrl |-> u,
                   clearAnthropicKey |-> c, createdAt |-> 1, updatedAt |-> 1] :
                  n \in {NameA, QuotedName}, u \in {Url1, QuotedUrl}, c \in BOOLEAN }
        keyed == base \cup {With(p, "apiKey", k) : p \in base, k \in {<<>>, Key1}}
        modelled == keyed \cup {With(p, "model", Model2) : p \in keyed}
    IN  modelled \cup {With(p, "extraEnv", x) : p \in modelled, x \in ExtraEnvs}

ShellInit ==
    /\ StoreInit
    /\ settings = DefaultSettings("linux")
    /\ cEnc = [made |-> FALSE]
    /\ cPrev = [made |-> FALSE]
    /\ cDec = [made |-> FALSE]
    /\ emitted = [made |-> FALSE, op |-> "none"]
    /\ race = NoRace
    /\ shells = NoShells

GenerateStep ==
    /\ emitted.op = "none"
    /\ \E p \in ShellProfiles, sh \in ShellTypes :
        /\ emitted' = [made |-> TRUE, op |-> "generate", profile |-> p, shell |-> sh,
                   env |-> generateEnvVars(p),
                   lines |-> ScriptLines(p, sh, now),
                   text |-> generateShellScript(p, sh, now)]
        /\ UNCHANGED storeVars
        /\ UNCHANGED cipherVars
        /\ UNCHANGED liveVars

GenerateResetStep ==
    /\ emitted.op = "none"
    /\ \E sh \in ShellTypes :
        /\ emitted' = [made |-> FALSE, op |-> "reset", shell |-> sh,
                       lines |-> ResetLines(sh),
                       text |-> generateResetScript(sh)]
        /\ UNCHANGED storeVars
        /\ UNCHANGED cipherVars
        /\ UNCHANGED liveVars

\* values of process.env.SHELL || process.env.ComSpec || ''
AmbientShells ==
    { <<>>,
      <<"/", "b", "i", "n", "/", "f", "i", "s", "h">>,
      <<"/", "b", "i", "n", "/", "z", "s", "h">>,
      <<"/", "b", "i", "n", "/", "b", "a", "s", "h">>,
      <<"/", "b", "i", "n", "/", "s", "h">>,
      <<"/", "u", "s", "r", "/", "b", "i", "n", "/", "p", "w", "s", "h">>,
      <<"C", ":", "\\", "W", "I", "N", "D", "O", "W", "S", "\\", "s", "y", "s", "t", "e", "m", "3", "2", "\\", "c", "m", "d", ".", "e", "x", "e">>,
      <<"C", ":", "\\", "W", "I", "N", "D", "O", "W", "S", "\\", "p", "o", "w", "e", "r", "s", "h", "e", "l", "l", ".", "e", "x", "e">>,
      <<"/", "h", "o", "m", "e", "/", "z", "s", "h", "/", "b", "i", "n", "/", "f", "i", "s", "h">>,
      <<"/", "o", "p", "t", "/", "b", "a", "s", "h", "/", "b", "i", "n", "/", "z", "s", "h">>,
      <<"C", ":", "\\", "P", "r", "o", "g", "r", "a", "m", " ", "F", "i", "l", "e", "s", "\\", "P", "o", "w", "e", "r", "S", "h", "e", "l", "l", "\\", "7", "\\", "P", "W", "S", "H", ".", "E", "X", "E">> }

\* the --shell option of use and reset; "" stands for none
ShellOptions == ShellTypes \cup {"", "tcsh"}

\* detectShell() in an environment, and the dialect a use and a reset in that
\* environment write their script in
DetectStep ==
    /\ emitted.op = "none"
    /\ \E arg \in ShellOptions, ambient \in AmbientShells, platform \in Platforms :
        LET stored == saveProfile(Doc, BareProfile(NameA), CHOOSE iv \in CommandIvs : TRUE, now)
        IN  /\ emitted' = [made |-> FALSE, op |-> "detect", arg |-> arg,
                           ambient |-> ambient, platform |-> platform,
                           detected |-> detectShell(ambient, platform),
                           use |-> useProfile(stored, NameA, arg, ambient, platform, now).out,
                           reset |-> resetEnvironment(stored, arg, ambient, platform).out]
            /\ UNCHANGED storeVars
            /\ UNCHANGED cipherVars
            /\ UNCHANGED liveVars

ShellNext == GenerateStep \/ GenerateResetStep \/ DetectStep

SpecShell == ShellInit /\ [][ShellNext]_vars

(***************************************************************************)
(* Two concurrent invocations on the shared document.  An invocation is a  *)
(* process of its own; config.get reads the file, config.set reads the     *)
(* file, replaces one key and writes the whole document back in one piece. *)
(* The steps of the two processes interleave at every read and write.      *)
(***************************************************************************)
RaceCalls ==
    {[op |-> "saveProfile", name |-> p.name, profile |-> p, iv |-> iv] :
        p \in SaveInputs, iv \in CommandIvs}
    \cup {[op |-> "deleteProfile", name |-> n] : n \in Names}
    \cup {[op |-> "setActiveProfile", name |-> n] : n \in Names}

\* calls made one after the other before the two processes start
RacePrefix ==
    /\ race = NoRace
    /\ (SaveProfileCall \/ DeleteProfileCall \/ SetActiveProfileCall)

\* a process starts its invocation
RaceStart(i) ==
    /\ now <= MaxSteps
    /\ race.proc[i].pc = "idle"
    /\ \E c \in RaceCalls :
          race' = [proc |-> [race.proc EXCEPT ![i] =
                              [pc |-> IF c.op = "setActiveProfile" THEN "setRead" ELSE "get",
                               call |-> c, at |-> now]],
                   written |-> race.written,
                   base |-> IF race = NoRace THEN Doc ELSE race.base]
    /\ now' = now + 1
    /\ UNCHANGED <<profiles, activeProfile, settings, last, stdout>>
    /\ UNCHANGED <<cEnc, cPrev, cDec, emitted, shells>>

\* const profiles = getProfiles() and the change made to that object
RaceGet(i) ==
    LET p == race.proc[i]
    IN  /\ p.pc = "get"
        /\ race' = [race EXCEPT !.proc[i] =
                      IF p.call.op = "saveProfile"
                      THEN [pc |-> "setRead", call |-> p.call, at |-> p.at,
                            profiles |-> saveProfile(Doc, p.call.profile, p.call.iv,
                                                     p.at).profiles]
                      ELSE IF p.call.name \in DOMAIN getProfiles(Doc)
                      THEN [pc |-> "setRead", call |-> p.call, at |-> p.at,
                            profiles |-> Without(getProfiles(Doc), p.call.name)]
                      ELSE [pc |-> "done", call |-> p.call, at |-> p.at, ret |-> FALSE]]
        /\ UNCHANGED storeVars
        /\ UNCHANGED <<cEnc, cPrev, cDec, emitted, shells>>

\* config.set(key, value), first half: the document is read
RaceSetRead(i) ==
    LET p == race.proc[i]
    IN  /\ p.pc \in {"setRead", "clearRead"}
        /\ race' = [race EXCEPT !.proc[i] =
                      [x \in DOMAIN p \cup {"store"} |->
                          IF x = "store" THEN Doc
                          ELSE IF x = "pc"
                          THEN (IF p.pc = "setRead" THEN "setWrite" ELSE "clearWrite")
                          ELSE p[x]]]
        /\ UNCHANGED storeVars
        /\ UNCHANGED <<cEnc, cPrev, cDec, emitted, shells>>

\* config.set(key, value), second half: the key is replaced in the document
\* that was read and the whole document is written
RaceSetWrite(i) ==
    LET p == race.proc[i]
        doc == IF p.pc = "clearWrite" THEN [p.store EXCEPT !.activeProfile = Null]
               ELSE IF p.call.op = "setActiveProfile"
               THEN [p.store EXCEPT !.activeProfile = p.call.name]
               ELSE [p.store EXCEPT !.profiles = p.profiles]
    IN  /\ p.pc \in {"setWrite", "clearWrite"}
        /\ profiles' = doc.profiles
        /\ activeProfile' = doc.activeProfile
        /\ settings' = doc.settings
        /\ race' = [race EXCEPT
                      !.proc[i] =
                          IF p.pc = "setWrite" /\ p.call.op = "deleteProfile"
                          THEN [pc |-> "getActive", call |-> p.call, at |-> p.at]
                          ELSE [pc |-> "done", call |-> p.call, at |-> p.at, ret |-> TRUE],
                      !.written =
                          IF p.pc = "setWrite" /\ p.call.op = "saveProfile"
                          THEN @ \cup {p.profiles[p.call.name]} ELSE @]
        /\ UNCHANGED <<now, last, stdout>>
        /\ UNCHANGED <<cEnc, cPrev, cDec, emitted, shells>>

\* deleteProfile: config.get('activeProfile') === name
RaceGetActive(i) ==
    LET p == race.proc[i]
    IN  /\ p.pc = "getActive"
        /\ race' = [race EXCEPT !.proc[i] =
                      IF getActiveProfile(Doc) = p.call.name
                      THEN [pc |-> "clearRead", call |-> p.call, at |-> p.at]
                      ELSE [pc |-> "done", call |-> p.call, at |-> p.at, ret |-> TRUE]]
        /\ UNCHANGED storeVars
        /\ UNCHANGED <<cEnc, cPrev, cDec, emitted, shells>>

RaceNext ==
    \/ RacePrefix
    \/ \E i \in Procs :
        RaceStart(i) \/ RaceGet(i) \/ RaceSetRead(i) \/ RaceSetWrite(i) \/ RaceGetActive(i)

SpecRace == Init /\ [][RaceNext]_vars

(***************************************************************************)
(* Live shells.  A shell evaluates the script a use or a reset printed, as *)
(* the README tells the user to (eval "$(ccx use NAME)", Invoke-Expression, *)
(* | source).  The environment of a shell maps the names of its variables  *)
(* to their values; a variable that is not set has no entry.               *)
(***************************************************************************)
ScriptComments ==
    {"# Claude Env - Profile: ", "# Generated: ", "# Active profile: ",
     "@REM Claude Env - Profile: ", "@REM Generated: "}

\* a word of bash or zsh from position i: text between ' is literal, \ outside
\* of quotes makes the next character literal
RECURSIVE BashWord(_, _, _, _)
BashWord(w, i, quoted, acc) ==
    IF i > Len(w) THEN [ok |-> ~quoted, value |-> acc]
    ELSE IF quoted
    THEN (IF w[i] = "'" THEN BashWord(w, i + 1, FALSE, acc)
          ELSE BashWord(w, i + 1, TRUE, Append(acc, w[i])))
    ELSE IF w[i] = "'" THEN BashWord(w, i + 1, TRUE, acc)
    ELSE IF w[i] = "\\"
    THEN (IF i < Len(w) THEN BashWord(w, i + 2, FALSE, Append(acc, w[i + 1]))
          ELSE [ok |-> FALSE, value |-> acc])
    ELSE BashWord(w, i + 1, FALSE, Append(acc, w[i]))

\* a word of fish: as in bash, and inside quotes \' and \\ stand for ' and \
RECURSIVE FishWord(_, _, _, _)
FishWord(w, i, quoted, acc) ==
    IF i > Len(w) THEN [ok |-> ~quoted, value |-> acc]
    ELSE IF quoted
    THEN (IF w[i] = "'" THEN FishWord(w, i + 1, FALSE, acc)
          ELSE IF w[i] = "\\" /\ i < Len(w) /\ w[i + 1] \in {"'", "\\"}
          THEN FishWord(w, i + 2, TRUE, Append(acc, w[i + 1]))
          ELSE FishWord(w, i + 1, TRUE, Append(acc, w[i])))
    ELSE IF w[i] = "'" THEN FishWord(w, i + 1, TRUE, acc)
    ELSE IF w[i] = "\\"
    THEN (IF i < Len(w) THEN FishWord(w, i + 2, FALSE, Append(acc, w[i + 1]))
          ELSE [ok |-> FALSE, value |-> acc])
    ELSE FishWord(w, i + 1, FALSE, Append(acc, w[i]))

\* a single-quoted string literal of PowerShell: '' inside stands for '
RECURSIVE PowerShellLiteral(_, _, _, _)
PowerShellLiteral(w, i, quoted, acc) ==
    IF i > Len(w) THEN [ok |-> ~quoted /\ w # <<>>, value |-> acc]
    ELSE IF quoted
    THEN (IF w[i] = "'" /\ i < Len(w) /\ w[i + 1] = "'"
          THEN PowerShellLiteral(w, i + 2, TRUE, Append(acc, "'"))
          ELSE IF w[i] = "'" THEN PowerShellLiteral(w, i + 1, FALSE, acc)
          ELSE PowerShellLiteral(w, i + 1, TRUE, Append(acc, w[i])))
    ELSE IF i = 1 /\ w[i] = "'" THEN PowerShellLiteral(w, i + 1, TRUE, acc)
    ELSE [ok |-> FALSE, value |-> acc]

\* the environment after one line of a script
EvalLine(dialect, env, line) ==
    LET rest(n) == SubSeq(line, n, Len(line))
        assign(key, word) == [ok |-> word.ok,
                              env |-> IF word.ok THEN With(env, key, word.value) ELSE env]
        clear(key) == [ok |-> TRUE, env |-> Without(env, key)]
        failed == [ok |-> FALSE, env |-> env]
    IN  IF line = <<>> \/ line[1] \in ScriptComments THEN [ok |-> TRUE, env |-> env]
        ELSE CASE dialect \in {"bash", "zsh"} ->
                    IF line[1] = "unset " /\ Len(line) = 2 THEN clear(line[2])
                    ELSE IF line[1] = "export " /\ Len(line) >= 3 /\ line[3] = "="
                    THEN assign(line[2], BashWord(rest(4), 1, FALSE, <<>>))
                    ELSE failed
               [] dialect = "fish" ->
                    IF line[1] = "set -e " /\ Len(line) = 2 THEN clear(line[2])
                    ELSE IF line[1] = "set -gx " /\ Len(line) >= 3 /\ line[3] = " "
                    THEN assign(line[2], FishWord(rest(4), 1, FALSE, <<>>))
                    ELSE failed
               [] dialect = "powershell" ->
                    IF line[1] = "Remove-Item Env:\\" /\ Len(line) = 3 THEN clear(line[2])
                    ELSE IF line[1] = "$env:" /\ Len(line) >= 3 /\ line[3] = " = "
                    THEN assign(line[2], PowerShellLiteral(rest(4), 1, FALSE, <<>>))
                    ELSE failed
               [] dialect = "cmd" ->
                    IF line[1] = "set " /\ Len(line) >= 3 /\ line[3] = "="
                    THEN (IF Len(line) = 3 THEN clear(line[2])
                          ELSE [ok |-> TRUE, env |-> With(env, line[2], rest(4))])
                    ELSE failed

\* the environment after the lines of a script from line i on; evaluation
\* stops at a line the shell cannot read
RECURSIVE EvalFrom(_, _, _, _)
EvalFrom(dialect, env, lines, i) ==
    IF i > Len(lines) THEN [ok |-> TRUE, env |-> env]
    ELSE LET r == EvalLine(dialect, env, lines[i])
         IN  IF r.ok THEN EvalFrom(dialect, r.env, lines, i + 1) ELSE r

Eval(dialect, env, lines) == EvalFrom(dialect, env, lines, 1)

\* faulty variant: the shell's profile is reported from the store's pointer
ShowCurrentFromStore(doc, env) ==
    LET shown(k) == IF Truthy(env, k) THEN env[k] ELSE <<"(not set)">>
        masked(k) == IF Truthy(env, k) THEN <<"********">> ELSE <<"(not set)">>
        active == IF getActiveProfile(doc) \in {Null, <<>>}
                  THEN <<"(none)">> ELSE getActiveProfile(doc)
    IN  Ended(doc, "ok",
              [kind |-> "current", configActive |-> active, shellActive |-> active,
               baseUrl |-> shown("ANTHROPIC_BASE_URL"),
               authToken |-> masked("ANTHROPIC_AUTH_TOKEN"),
               model |-> shown("ANTHROPIC_MODEL"),
               apiKey |-> masked("ANTHROPIC_API_KEY")])

\* showCurrent() in a shell with the environment env
showCurrent(doc, env) ==
    LET shown(k) == IF Truthy(env, k) THEN env[k] ELSE <<"(not set)">>
        masked(k) == IF Truthy(env, k) THEN <<"********">> ELSE <<"(not set)">>
    IN  Ended(doc, "ok",
              [kind |-> "current",
               configActive |-> IF getActiveProfile(doc) \in {Null, <<>>}
                                THEN <<"(none)">> ELSE getActiveProfile(doc),
               shellActive |-> IF Truthy(env, "CCX_ACTIVE_PROFILE")
                               THEN env["CCX_ACTIVE_PROFILE"] ELSE <<"(none)">>,
               baseUrl |-> shown("ANTHROPIC_BASE_URL"),
               authToken |-> masked("ANTHROPIC_AUTH_TOKEN"),
               model |-> shown("ANTHROPIC_MODEL"),
               apiKey |-> masked("ANTHROPIC_API_KEY")])

LiveShells == {1, 2}

\* the key of the official backend in the user's environment
OfficialKey == <<"sk-ant-0">>

\* a store made by `create a -u ... -k ... -m ...` and an import of profile b
LiveDoc ==
    LET empty == [profiles |-> NoProfiles, activeProfile |-> Null,
                  settings |-> DefaultSettings("linux")]
        iv == CHOOSE x \in CommandIvs : TRUE
        one == createProfile(empty, NameA,
                             [baseUrl |-> Url1, apiKey |-> Key1, model |-> Model1],
                             iv, 0).doc
    IN  importProfile(one, JsonB, <<>>, iv, 0).doc

LiveInit ==
    /\ profiles = LiveDoc.profiles
    /\ activeProfile = LiveDoc.activeProfile
    /\ settings = LiveDoc.settings
    /\ now = 1
    /\ last = [op |-> "none", outcome |-> "ok"]
    /\ stdout = NoOutput
    /\ cEnc = [made |-> FALSE]
    /\ cPrev = [made |-> FALSE]
    /\ cDec = [made |-> FALSE]
    /\ emitted = [made |-> FALSE, op |-> "none"]
    /\ race = NoRace
    /\ \E d \in ShellTypes, e \in {<<>>, [ANTHROPIC_API_KEY |-> OfficialKey]} :
          shells = [s \in LiveShells |->
                      IF s = 1 THEN [dialect |-> d, env |-> e]
                      ELSE [dialect |-> "zsh", env |-> [ANTHROPIC_API_KEY |-> OfficialKey]]]

\* an invocation made from shell s ends, the shell having evaluated what it
\* printed
LiveFinish(r, call, s, env) ==
    /\ profiles' = r.doc.profiles
    /\ activeProfile' = r.doc.activeProfile
    /\ settings' = r.doc.settings
    /\ now' = now + 1
    /\ last' = call
    /\ stdout' = r.out
    /\ shells' = [shells EXCEPT ![s].env = env]
    /\ UNCHANGED <<cEnc, cPrev, cDec, emitted, race>>

\* the script of `ccx use n --shell dialect` is evaluated in shell s
LiveUse(s) ==
    /\ now <= MaxSteps
    /\ \E n \in Names :
        LET r == useProfile(Doc, n, shells[s].dialect, <<>>, "linux", now)
            ev == IF r.outcome = "ok"
                  THEN Eval(shells[s].dialect, shells[s].env, r.out.lines)
                  ELSE [ok |-> TRUE, env |-> shells[s].env]
        IN  LiveFinish(r, [op |-> "use", outcome |-> r.outcome, name |-> n, shell |-> s,
                           before |-> shells[s].env, evaluated |-> ev.ok],
                       s, ev.env)

\* the script of `ccx reset --shell dialect` is evaluated in shell s
LiveReset(s) ==
    /\ now <= MaxSteps
    /\ LET r == resetEnvironment(Doc, shells[s].dialect, <<>>, "linux")
           ev == Eval(shells[s].dialect, shells[s].env, r.out.lines)
           afterUse == last.op = "use" /\ last.outcome = "ok" /\ last.shell = s
       IN  LiveFinish(r, [op |-> "reset", outcome |-> r.outcome, shell |-> s,
                          afterUse |-> afterUse,
                          name |-> IF afterUse THEN last.name ELSE <<>>,
                          before |-> IF afterUse THEN last.before ELSE shells[s].env,
                          evaluated |-> ev.ok],
                      s, ev.env)

\* `ccx current` in shell s
LiveCurrent(s) ==
    /\ now <= MaxSteps
    /\ LET r == showCurrent(Doc, shells[s].env)
       IN  LiveFinish(r, [op |-> "current", outcome |-> r.outcome, shell |-> s],
                      s, shells[s].env)

LiveNext == \E s \in LiveShells : LiveUse(s) \/ LiveReset(s) \/ LiveCurrent(s)

SpecLive == LiveInit /\ [][LiveNext]_vars

\* C2: for every credential string s (empty and non-ASCII included) and every
\* IV drawn by encrypt, decrypt(encrypt(s)) = s; two encrypt calls on the same
\* s that draw different IVs return different records, and both decrypt to s.
C2_RoundTrip ==
    /\ cEnc.made => decrypt(cEnc.record) = cEnc.plain
    /\ (cDec.made /\ cDec.kind = "record") =>
            /\ ~cDec.threw
            /\ cDec.value = cEnc.plain
    /\ (cEnc.made /\ cPrev.made /\ cPrev.plain = cEnc.plain /\ cPrev.iv # cEnc.iv) =>
            /\ cPrev.record # cEnc.record
            /\ decrypt(cPrev.record) = cEnc.plain

\* a non-ASCII credential encrypted twice under different IVs, the second
\* record then decrypted
C2_Witness ==
    /\ cEnc.made /\ cPrev.made /\ cDec.made
    /\ cEnc.plain = <<"k", "U+20AC", "U+1F511">>
    /\ cPrev.plain = cEnc.plain
    /\ cPrev.iv # cEnc.iv
    /\ cDec.kind = "record"

\* C3: on every input on which decryption fails (a statement of the try block
\* throws), decrypt does not raise and returns exactly its input; inputs
\* without a delimiter, with a non-hex or short IV, with non-hex or truncated
\* ciphertext are such inputs.
C3_DecryptFallback ==
    cDec.made =>
        /\ ~cDec.raised
        /\ cDec.threw => cDec.value = cDec.input
        /\ cDec.kind \in FailingKinds => cDec.threw

\* a record produced under another machine's key, on which the padding check
\* fails
C3_Witness ==
    /\ cDec.made
    /\ cDec.kind = "different key"
    /\ cDec.threw
    /\ cDec.value = cDec.input

(***************************************************************************)
(* Properties of the store and of the commands                             *)
(***************************************************************************)
Failures == {"NotFound", "Validation"}

\* C1: after saveProfile(p), getProfile(p.name) returns a profile with the
\* same fields as p, each field but updatedAt equal to p's (apiKey being the
\* plaintext that was passed in), and an updatedAt no earlier than the time of
\* the save; this holds whether the name was stored before or not.
C1_SaveThenGet ==
    last.op = "saveProfile" =>
        LET got == getProfile(Doc, last.profile.name)
        IN  /\ got.found
            /\ DOMAIN got.profile = DOMAIN last.profile
            /\ \A f \in DOMAIN last.profile \ {"updatedAt"} :
                    got.profile[f] = last.profile[f]
            /\ got.profile.updatedAt >= last.at

\* a save that replaced a stored profile, with a credential that is stored
\* encrypted
C1_Witness ==
    /\ last.op = "saveProfile"
    /\ last.replaced
    /\ Truthy(last.profile, "apiKey")
    /\ profiles[last.profile.name].apiKey # last.profile.apiKey
    /\ getProfile(Doc, last.profile.name).profile.apiKey = last.profile.apiKey

C4_HexDigits == {HexLower[j] : j \in 1..16}

\* hex(IV):hex(ciphertext): 16 bytes of IV, one or more blocks of ciphertext
C4_IsRecord(text) ==
    /\ Len(text) > 2 * BlockSize + 1
    /\ (Len(text) - (2 * BlockSize + 1)) % (2 * BlockSize) = 0
    /\ \A i \in 1..Len(text) :
          IF i = 2 * BlockSize + 1 THEN text[i] = ":" ELSE text[i] \in C4_HexDigits

\* every credential a call or a command supplies
C4_Supplied ==
    {p.apiKey : p \in {q \in SaveInputs : Has(q, "apiKey")}}
    \cup {o.apiKey : o \in {q \in CreateOptions \cup EditOptions : Has(q, "apiKey")}}
    \cup {a[1].value.apiKey :
            a \in {b \in ImportArgs : b[1].kind = "object" /\ Has(b[1].value, "apiKey")}}

\* C4: with encryption enabled, after any sequence of saveProfile,
\* deleteProfile and setActiveProfile calls and create, edit and import
\* commands from the empty store, every non-empty apiKey in the persisted
\* document is an encrypted record hex(IV):hex(ciphertext) and equals neither
\* a plaintext credential that was supplied nor the plaintext it decrypts to.
C4_StoredCredentialsEncrypted ==
    \A n \in DOMAIN profiles :
        Truthy(profiles[n], "apiKey") =>
            LET plain == getProfile(Doc, n).profile.apiKey
            IN  /\ settings.encryptionEnabled
                /\ C4_IsRecord(profiles[n].apiKey)
                /\ profiles[n].apiKey \notin C4_Supplied
                /\ profiles[n].apiKey # plain
                /\ plain \in C4_Supplied

\* an edit has stored a new credential
C4_Witness ==
    /\ last.op = "edit"
    /\ last.outcome = "ok"
    /\ Has(last.options, "apiKey")
    /\ Truthy(profiles[last.name], "apiKey")

C7_FailureCase(call, stored) ==
    \/ /\ call.op \in {"show", "edit", "delete", "use", "export"}
       /\ call.name \notin stored
    \/ /\ call.op = "create"
       /\ \/ call.name \in stored
          \/ /\ Has(call.options, "template")
             /\ \A i \in 1..Len(providerTemplates) :
                    providerTemplates[i].name # call.options.template
          \/ /\ ~Has(call.options, "template")
             /\ ~Has(call.options, "baseUrl")
    \/ /\ call.op = "import"
       /\ \/ call.json.kind = "malformed"
          \/ /\ call.json.kind = "object"
             /\ call.name = <<>>
             /\ ~Has(call.json.value, "name")
          \/ /\ call.json.kind = "object"
             /\ (IF call.name # <<>> THEN call.name
                 ELSE IF Has(call.json.value, "name") THEN call.json.value.name
                 ELSE <<>>) \in stored

C8_WithCredential(doc, name, cred) ==
    [doc EXCEPT !.profiles[name] = WithOpt(Without(@, "apiKey"), "apiKey", cred)]

C8_OtherCredentials ==
    {[set |-> FALSE], [set |-> TRUE, v |-> <<>>]}
    \cup {[set |-> TRUE, v |-> encrypt(k, iv)] : k \in {Key1, Key2}, iv \in IvChoices}

\* C8: the JSON an export prints has no credential member, none of its text
\* members is the plaintext credential or the encrypted record, and the same
\* output is printed for every profile that differs from the exported one
\* only in its credential.
C8_ExportOmitsCredential ==
    (last.op = "export" /\ last.outcome = "ok") =>
        /\ stdout.kind = "json"
        /\ ~Has(stdout.members, "apiKey")
        /\ stdout.members = Without(getProfile(Doc, last.name).profile, "apiKey")
        /\ Has(profiles[last.name], "apiKey") =>
              \A f \in DOMAIN stdout.members \cap {"name", "baseUrl", "model", "description"} :
                    /\ stdout.members[f] # profiles[last.name].apiKey
                    /\ stdout.members[f] # getProfile(Doc, last.name).profile.apiKey
        /\ \A cred \in C8_OtherCredentials :
              exportProfile(C8_WithCredential(Doc, last.name, cred), last.name).out = stdout

\* a profile that carries a credential was exported
C8_Witness ==
    /\ last.op = "export"
    /\ last.outcome = "ok"
    /\ Truthy(profiles[last.name], "apiKey")
    /\ stdout.kind = "json"

(***************************************************************************)
(* Properties of the generated scripts                                     *)
(***************************************************************************)
\* what stands for a ' inside a quoted value
C9_Quote(shell) ==
    CASE shell \in {"bash", "zsh"} -> <<"'", "\\", "'", "'">>
      [] shell = "fish" -> <<"\\", "'">>
      [] shell = "powershell" -> <<"'", "'">>

C9_Escaped(value, shell) ==
    LET RECURSIVE upTo(_)
        upTo(n) == IF n = 0 THEN <<>>
                   ELSE upTo(n - 1)
                        \o (IF value[n] = "'" THEN C9_Quote(shell) ELSE <<value[n]>>)
    IN  upTo(Len(value))

\* the statement of a dialect for a variable: an assignment of a value, the
\* clear form for no value
C9_Statement(shell, name, value) ==
    CASE shell \in {"bash", "zsh"} ->
            IF value = <<>> THEN <<"unset ", name>>
            ELSE <<"export ", name, "=", "'">> \o C9_Escaped(value, shell) \o <<"'">>
      [] shell = "fish" ->
            IF value = <<>> THEN <<"set -e ", name>>
            ELSE <<"set -gx ", name, " ", "'">> \o C9_Escaped(value, shell) \o <<"'">>
      [] shell = "powershell" ->
            IF value = <<>>
            THEN <<"Remove-Item Env:\\", name, " -ErrorAction SilentlyContinue">>
            ELSE <<"$env:", name, " = ", "'">> \o C9_Escaped(value, shell) \o <<"'">>
      [] shell = "cmd" ->
            IF value = <<>> THEN <<"set ", name, "=">>
            ELSE <<"set ", name, "=">> \o value

\* C9: in the script of every dialect, after the three header lines, there is
\* one statement for each variable of the environment set, in order: for a
\* variable with a value, export NAME='value' with ' as '\'' (bash, zsh),
\* set -gx NAME 'value' with ' as \' (fish), $env:NAME = 'value' with ' as ''
\* (powershell), set NAME=value unquoted (cmd); for a cleared variable,
\* unset NAME, set -e NAME, Remove-Item Env:\NAME -ErrorAction
\* SilentlyContinue, set NAME= respectively.
C9_DialectForms ==
    emitted.made =>
        /\ Len(emitted.lines) =
              3 + Len(emitted.env) + (IF emitted.shell \in {"bash", "zsh"} THEN 3 ELSE 2)
        /\ \A i \in 1..Len(emitted.env) :
              emitted.lines[3 + i] =
                 C9_Statement(emitted.shell, emitted.env[i][1], emitted.env[i][2])

\* a fish script with a value that holds a quote and with a cleared variable
C9_Witness ==
    /\ emitted.made
    /\ emitted.shell = "fish"
    /\ \E i \in 1..Len(emitted.env) :
          \E j \in 1..Len(emitted.env[i][2]) : emitted.env[i][2][j] = "'"
    /\ \E i \in 1..Len(emitted.env) : emitted.env[i][2] = <<>>

\* a line of the script assigns a value to the variable
C10_Assigns(lines, shell, name) ==
    \E i \in 1..Len(lines) :
        /\ Len(lines[i]) >= 2
        /\ lines[i][2] = name
        /\ CASE shell \in {"bash", "zsh"} -> lines[i][1] = "export "
             [] shell = "fish" -> lines[i][1] = "set -gx "
             [] shell = "powershell" -> lines[i][1] = "$env:"
             [] shell = "cmd" -> lines[i][1] = "set " /\ Len(lines[i]) > 3

C10_Iff ==
    /\ C10_Assigns(emitted.lines, emitted.shell, "ANTHROPIC_AUTH_TOKEN")
          <=> Truthy(emitted.profile, "apiKey")
    /\ C10_Assigns(emitted.lines, emitted.shell, "ANTHROPIC_MODEL")
          <=> Truthy(emitted.profile, "model")

C10_ExtraNames(profile) ==
    IF Has(profile, "extraEnv")
    THEN {profile.extraEnv[i][1] : i \in 1..Len(profile.extraEnv)}
    ELSE {}

\* C10 as stated: for every profile and dialect the activation script assigns
\* ANTHROPIC_AUTH_TOKEN exactly when the profile carries a credential and
\* ANTHROPIC_MODEL exactly when its model is set.
C10_Original == emitted.made => C10_Iff

\* C10: for every dialect and every profile whose extraEnv names neither
\* ANTHROPIC_AUTH_TOKEN nor ANTHROPIC_MODEL, the activation script assigns
\* ANTHROPIC_AUTH_TOKEN exactly when the profile carries a non-empty
\* credential and ANTHROPIC_MODEL exactly when its model is non-empty.
C10_TokenAndModel ==
    (/\ emitted.made
     /\ C10_ExtraNames(emitted.profile)
            \cap {"ANTHROPIC_AUTH_TOKEN", "ANTHROPIC_MODEL"} = {})
        => C10_Iff

\* a cmd script for a profile with a credential, no model and other extra
\* variables
C10_Witness ==
    /\ emitted.made
    /\ emitted.shell = "cmd"
    /\ Truthy(emitted.profile, "apiKey")
    /\ ~Has(emitted.profile, "model")
    /\ C10_ExtraNames(emitted.profile) = {"FOO", "BAR"}
    /\ C10_Assigns(emitted.lines, emitted.shell, "ANTHROPIC_AUTH_TOKEN")
    /\ ~C10_Assigns(emitted.lines, emitted.shell, "ANTHROPIC_MODEL")

\* a statement of the script names the variable
C11_Mentions(line, name) == \E j \in 1..Len(line) : line[j] = name

C11_OnlyCleared ==
    \A i \in 1..Len(emitted.lines) :
        C11_Mentions(emitted.lines[i], "ANTHROPIC_API_KEY") =>
            emitted.lines[i] = C9_Statement(emitted.shell, "ANTHROPIC_API_KEY", <<>>)

\* extraEnv gives ANTHROPIC_API_KEY a value
C11_ExtraSetsKey(profile) ==
    /\ Has(profile, "extraEnv")
    /\ \E i \in 1..Len(profile.extraEnv) :
          profile.extraEnv[i][1] = "ANTHROPIC_API_KEY" /\ profile.extraEnv[i][2] # <<>>

\* C11 as stated: in no activation or reset script, for any profile and any
\* dialect, is there a statement that names ANTHROPIC_API_KEY other than the
\* dialect's clear statement.
C11_Original == emitted.op \in {"generate", "reset"} => C11_OnlyCleared

\* C11: every statement of a reset script, and of the activation script of a
\* profile whose extraEnv gives ANTHROPIC_API_KEY no value, that names
\* ANTHROPIC_API_KEY is the dialect's clear statement; the script of a profile
\* whose extraEnv gives it a value assigns that value.
C11_ApiKeyOnlyCleared ==
    /\ emitted.op = "reset" => C11_OnlyCleared
    /\ (emitted.op = "generate" /\ ~C11_ExtraSetsKey(emitted.profile)) => C11_OnlyCleared
    /\ (emitted.op = "generate" /\ C11_ExtraSetsKey(emitted.profile)) =>
          C10_Assigns(emitted.lines, emitted.shell, "ANTHROPIC_API_KEY")

\* a powershell script that clears ANTHROPIC_API_KEY for a profile with a
\* credential and extra variables
C11_Witness ==
    /\ emitted.op = "generate"
    /\ emitted.shell = "powershell"
    /\ emitted.profile.clearAnthropicKey
    /\ Truthy(emitted.profile, "apiKey")
    /\ Has(emitted.profile, "extraEnv")
    /\ ~C11_ExtraSetsKey(emitted.profile)
    /\ \E i \in 1..Len(emitted.lines) :
          emitted.lines[i] = PowerShellRemove("ANTHROPIC_API_KEY")

\* the tracking statement of a dialect around the text of the profile's name
C12_Tracking(shell, name) ==
    CASE shell \in {"bash", "zsh"} ->
            <<"export ", "CCX_ACTIVE_PROFILE", "=", "'">> \o name \o <<"'">>
      [] shell = "fish" -> <<"set -gx ", "CCX_ACTIVE_PROFILE", " ", "'">> \o name \o <<"'">>
      [] shell = "powershell" -> <<"$env:", "CCX_ACTIVE_PROFILE", " = ", "'">> \o name \o <<"'">>
      [] shell = "cmd" -> <<"set ", "CCX_ACTIVE_PROFILE", "=">> \o name

C12_HasQuote(text) == \E j \in 1..Len(text) : text[j] = "'"

\* C12: in every dialect the last line of the activation script is the
\* statement that assigns the profile's name to CCX_ACTIVE_PROFILE (for a name
\* without a quote, exactly the dialect's assignment form), and the statement
\* of every variable of the environment set, those of extraEnv included,
\* stands on an earlier line.
C12_TrackingLast ==
    emitted.op = "generate" =>
        LET lines == emitted.lines
            n == Len(emitted.lines)
        IN  /\ n > 3
            /\ lines[n] = C12_Tracking(emitted.shell, emitted.profile.name)
            /\ ~C12_HasQuote(emitted.profile.name) =>
                  lines[n] = C9_Statement(emitted.shell, "CCX_ACTIVE_PROFILE",
                                          emitted.profile.name)
            /\ \A i \in 1..Len(emitted.env) :
                  \E j \in 1..(n - 1) :
                     lines[j] = C9_Statement(emitted.shell, emitted.env[i][1],
                                             emitted.env[i][2])
            /\ \A j \in 1..(n - 1) :
                  lines[j] # <<>> /\ lines[j][1] \notin {"# Claude Env - Profile: ",
                        "# Generated: ", "@REM Claude Env - Profile: ",
                        "@REM Generated: ", "# Active profile: "} =>
                     \E i \in 1..Len(emitted.env) :
                        lines[j] = C9_Statement(emitted.shell, emitted.env[i][1],
                                                emitted.env[i][2])

\* a fish script of a profile with extra variables, its last line the tracking
\* statement
C12_Witness ==
    /\ emitted.op = "generate"
    /\ emitted.shell = "fish"
    /\ Has(emitted.profile, "extraEnv")
    /\ emitted.profile.name = NameA
    /\ emitted.lines[Len(emitted.lines)] = FishSet("CCX_ACTIVE_PROFILE", NameA)
    /\ emitted.lines[Len(emitted.lines) - 2] = FishErase("BAR")

C13_Tracked ==
    <<"ANTHROPIC_BASE_URL", "ANTHROPIC_AUTH_TOKEN", "ANTHROPIC_MODEL", "CCX_ACTIVE_PROFILE">>

\* stores with profiles that carry extra variables, one of them active
C13_Docs ==
    {Doc}
    \cup {setActiveProfile(saveProfile(Doc, p, iv, 1), p.name) :
            p \in {q \in ShellProfiles : Has(q, "extraEnv") /\ Truthy(q, "apiKey")
                                          /\ Has(q, "model")},
            iv \in CommandIvs}

\* C13: for every dialect the reset script is exactly four lines, the
\* dialect's clear statement of ANTHROPIC_BASE_URL, ANTHROPIC_AUTH_TOKEN,
\* ANTHROPIC_MODEL and CCX_ACTIVE_PROFILE, and the reset command prints the
\* same script whatever profiles and extraEnv entries the store holds.
C13_ResetScript ==
    emitted.op = "reset" =>
        /\ Len(emitted.lines) = 4
        /\ \A i \in 1..4 :
              emitted.lines[i] = C9_Statement(emitted.shell, C13_Tracked[i], <<>>)
        /\ emitted.text = JoinLines(emitted.lines)
        /\ \A doc \in C13_Docs :
              LET r == resetEnvironment(doc, emitted.shell, <<>>, "linux")
              IN  r.out.lines = emitted.lines /\ r.out.text = emitted.text

\* the reset script of cmd
C13_Witness ==
    /\ emitted.op = "reset"
    /\ emitted.shell = "cmd"
    /\ emitted.lines[4] = CmdClear("CCX_ACTIVE_PROFILE")
    /\ Cardinality(C13_Docs) > 1

\* the word occurs in the text, at some position
C14_Within(text, word) ==
    \E k \in 0..(Len(text) - Len(word)) :
        \A j \in 1..Len(word) : text[k + j] = word[j]

\* the first match in the order fish, zsh, bash, powershell or pwsh, else the
\* platform's default
C14_Expected(ambient, platform) ==
    CASE C14_Within(ambient, <<"f","i","s","h">>) -> "fish"
      [] /\ ~C14_Within(ambient, <<"f","i","s","h">>)
         /\ C14_Within(ambient, <<"z","s","h">>) -> "zsh"
      [] /\ ~C14_Within(ambient, <<"f","i","s","h">>)
         /\ ~C14_Within(ambient, <<"z","s","h">>)
         /\ C14_Within(ambient, <<"b","a","s","h">>) -> "bash"
      [] /\ ~C14_Within(ambient, <<"f","i","s","h">>)
         /\ ~C14_Within(ambient, <<"z","s","h">>)
         /\ ~C14_Within(ambient, <<"b","a","s","h">>)
         /\ \/ C14_Within(ambient, <<"p","o","w","e","r","s","h","e","l","l">>)
            \/ C14_Within(ambient, <<"p","w","s","h">>) -> "powershell"
      [] OTHER -> IF platform = "win32" THEN "powershell" ELSE "bash"

\* C14: use and reset write their script in the dialect given with --shell
\* whenever one is given; otherwise in the dialect detectShell returns, which
\* is the first match in the order fish, zsh, bash, powershell or pwsh among
\* the substrings of the ambient shell path, else powershell on Windows, else
\* bash; detectShell returns one of the five dialects for every ambient value.
C14_Dialect ==
    emitted.op = "detect" =>
        /\ emitted.detected = C14_Expected(emitted.ambient, emitted.platform)
        /\ emitted.detected \in {"bash", "zsh", "fish", "powershell", "cmd"}
        /\ emitted.use.kind = "script"
        /\ emitted.reset.kind = "script"
        /\ emitted.use.shell = IF emitted.arg # "" THEN emitted.arg ELSE emitted.detected
        /\ emitted.reset.shell = emitted.use.shell
        /\ emitted.use.lines = ScriptLines(BareProfile(NameA), emitted.use.shell, now)
        /\ emitted.reset.lines = ResetLines(emitted.use.shell)

\* no --shell and an ambient path that names two shells: the earlier in the
\* order wins
C14_Witness ==
    /\ emitted.op = "detect"
    /\ emitted.arg = ""
    /\ C14_Within(emitted.ambient, <<"b","a","s","h">>)
    /\ emitted.detected = "zsh"
    /\ emitted.use.shell = "zsh"

(***************************************************************************)
(* Properties of concurrent invocations                                    *)
(***************************************************************************)
RaceOver == \A i \in Procs : race.proc[i].pc = "done"

\* what the call of a process makes of a document when nothing interleaves
RaceAlone(doc, p) ==
    CASE p.call.op = "saveProfile" -> saveProfile(doc, p.call.profile, p.call.iv, p.at)
      [] p.call.op = "deleteProfile" -> deleteProfile(doc, p.call.name).doc
      [] p.call.op = "setActiveProfile" -> setActiveProfile(doc, p.call.name)

\* the documents the two calls leave when one runs after the other
RaceSerial ==
    {RaceAlone(RaceAlone(race.base, race.proc[1]), race.proc[2]),
     RaceAlone(RaceAlone(race.base, race.proc[2]), race.proc[1])}

\* every record in the document is, in whole, the record one saveProfile
\* wrote, during the race or before it
C15_RecordsWhole ==
    race # NoRace =>
        \A n \in DOMAIN profiles :
            \/ profiles[n] \in race.written
            \/ n \in DOMAIN race.base.profiles /\ profiles[n] = race.base.profiles[n]

\* once both invocations have completed, the profile records are those one of
\* the two orders of the calls leaves
C15_OnlyPointerStale ==
    RaceOver => \E d \in RaceSerial : profiles = d.profiles

\* C15 as stated: under every interleaving of the reads and writes of two
\* concurrent invocations every profile record present is, in whole, a record
\* written by one saveProfile, and a lost race makes nothing but the active
\* pointer stale: the profile records end as one order of the calls leaves
\* them.
C15_Original == C15_RecordsWhole /\ C15_OnlyPointerStale

\* a save and a delete of another name have both completed and the saved
\* profile is not in the store
C15_Witness ==
    /\ RaceOver
    /\ race.proc[1].call.op = "saveProfile"
    /\ race.proc[2].call.op = "deleteProfile"
    /\ race.proc[2].ret
    /\ race.proc[1].call.name # race.proc[2].call.name
    /\ race.proc[1].call.name \notin DOMAIN profiles
    /\ \A d \in RaceSerial : race.proc[1].call.name \in DOMAIN d.profiles

\* C19 as stated: when two invocations that run saveProfile concurrently for
\* two different names have both completed, both profiles are in the store.
C19_Original ==
    (/\ RaceOver
     /\ race.proc[1].call.op = "saveProfile"
     /\ race.proc[2].call.op = "saveProfile"
     /\ race.proc[1].call.name # race.proc[2].call.name)
        => {race.proc[1].call.name, race.proc[2].call.name} \subseteq DOMAIN profiles

\* two saves of different names into the empty store have both completed and
\* only the profile written last is stored
C19_Witness ==
    /\ RaceOver
    /\ race.base.profiles = NoProfiles
    /\ race.proc[1].call.op = "saveProfile"
    /\ race.proc[2].call.op = "saveProfile"
    /\ race.proc[1].call.name = NameA
    /\ race.proc[2].call.name = NameB
    /\ DOMAIN profiles = {NameB}

TrackedVariables ==
    {"ANTHROPIC_BASE_URL", "ANTHROPIC_AUTH_TOKEN", "ANTHROPIC_MODEL", "CCX_ACTIVE_PROFILE"}

\* the value of a variable in an environment, or that it is not set
Holds(env, k) == IF Has(env, k) THEN [set |-> TRUE, v |-> env[k]] ELSE [set |-> FALSE, v |-> <<>>]

\* a shell has just evaluated the script of a reset, the invocation before it
\* being a successful use evaluated in the same shell
C16_UseThenReset == last.op = "reset" /\ last.afterUse /\ last.evaluated

\* C16: evaluating the script of a use and then the script of a reset in the
\* same shell leaves ANTHROPIC_BASE_URL, ANTHROPIC_AUTH_TOKEN, ANTHROPIC_MODEL
\* and CCX_ACTIVE_PROFILE unset and ANTHROPIC_API_KEY as it was before the use.
C16_Original ==
    C16_UseThenReset =>
        LET env == shells[last.shell].env
        IN  /\ \A k \in TrackedVariables : ~Has(env, k)
            /\ Holds(env, "ANTHROPIC_API_KEY") = Holds(last.before, "ANTHROPIC_API_KEY")

\* profile a was used and reset in a shell that held the official key: the
\* four tracked variables are unset, and so is the key
C16_Witness ==
    /\ C16_UseThenReset
    /\ last.name = NameA
    /\ Holds(last.before, "ANTHROPIC_API_KEY") = [set |-> TRUE, v |-> OfficialKey]
    /\ \A k \in TrackedVariables : ~Has(shells[last.shell].env, k)
    /\ ~Has(shells[last.shell].env, "ANTHROPIC_API_KEY")

\* after a use and a reset the four tracked variables are unset
C16_TrackedUnset ==
    C16_UseThenReset => \A k \in TrackedVariables : ~Has(shells[last.shell].env, k)

\* the profile CCX_ACTIVE_PROFILE names in shell s of sh, if any
ActiveIn(sh, s) ==
    IF Truthy(sh[s].env, "CCX_ACTIVE_PROFILE")
    THEN sh[s].env["CCX_ACTIVE_PROFILE"] ELSE <<"(none)">>

ShellActive(s) == ActiveIn(shells, s)

\* C17: with two live shells on one store, a use evaluated in one shell
\* changes only that shell's variables and the store's active pointer: the
\* other shell's variables, the records and the settings stay as they were;
\* and current reports the store's pointer and the asking shell's
\* CCX_ACTIVE_PROFILE separately, each with its own value.
C17_TwoShells ==
    [][ /\ (last'.op = "use" /\ last'.outcome = "ok") =>
              /\ \A t \in LiveShells \ {last'.shell} : shells'[t] = shells[t]
              /\ shells'[last'.shell].dialect = shells[last'.shell].dialect
              /\ ActiveIn(shells', last'.shell) = last'.name
              /\ activeProfile' = last'.name
              /\ profiles' = profiles
              /\ settings' = settings
        /\ last'.op = "current" =>
              /\ stdout'.configActive = IF activeProfile' = Null THEN <<"(none)">>
                                        ELSE activeProfile'
              /\ stdout'.shellActive = ActiveIn(shells', last'.shell)
              /\ shells' = shells
              /\ activeProfile' = activeProfile ]_vars

\* shell 1 still has profile a active after shell 2 activated profile b, and
\* current in shell 1 reports b for the store and a for the shell
C17_Witness ==
    /\ last.op = "current"
    /\ last.shell = 1
    /\ activeProfile = NameB
    /\ ShellActive(1) = NameA
    /\ ShellActive(2) = NameB
    /\ stdout.configActive = NameB
    /\ stdout.shellActive = NameA

\* C18: saveProfile(p) leaves under p.name a record with exactly the fields
\* of p, each holding p's value (apiKey in its encrypted form, updatedAt the
\* time of the save), so no field of an earlier record with that name
\* survives; every other record, the active pointer and the settings are as
\* they were before.
C18_FullReplace ==
    [][ last'.op = "saveProfile" =>
          LET p == last'.profile
              stored == profiles'[p.name]
          IN  /\ DOMAIN profiles' = DOMAIN profiles \cup {p.name}
              /\ DOMAIN stored = DOMAIN p \cup {"updatedAt"}
              /\ \A f \in DOMAIN p \ {"apiKey", "updatedAt"} : stored[f] = p[f]
              /\ Has(p, "apiKey") =>
                    IF p.apiKey = <<>> THEN stored.apiKey = <<>>
                    ELSE decrypt(stored.apiKey) = p.apiKey
              /\ stored.updatedAt = last'.at
              /\ \A n \in DOMAIN profiles \ {p.name} : profiles'[n] = profiles[n]
              /\ activeProfile' = activeProfile
              /\ settings' = settings ]_vars

\* a save over a record that had fields the new profile lacks, another
\* record being stored
C18_Witness ==
    /\ last.op = "saveProfile"
    /\ last.replaced
    /\ last.dropped # {}
    /\ last.dropped \cap DOMAIN profiles[last.profile.name] = {}
    /\ DOMAIN profiles # {last.profile.name}

C20_ReadOrWrite == {"create", "edit", "import", "export", "show", "list"}

\* C20: in a sequential run of CLI commands the active pointer is the name of
\* the most recent successful use, or none after a later reset or a later
\* deletion of that profile: a successful use sets it to its name, a reset and
\* the deletion of the profile it names set it to none, and every other
\* command (create, edit, import, export, show, list, a use that fails, a
\* delete of another profile or without --force) leaves it as it was.
C20_ActivePointer ==
    [][ LET c == last'
        IN  IF c.op = "use" /\ c.outcome = "ok" THEN activeProfile' = c.name
            ELSE IF c.op = "reset" THEN activeProfile' = Null
            ELSE IF c.op = "delete" /\ c.outcome = "ok" /\ c.force
                    /\ c.name = activeProfile
            THEN activeProfile' = Null /\ c.name \notin DOMAIN profiles'
            ELSE activeProfile' = activeProfile ]_vars

\* a command that is neither use, reset nor delete has succeeded while the
\* pointer names a profile activated earlier
C20_Witness ==
    /\ last.op \in C20_ReadOrWrite
    /\ last.outcome = "ok"
    /\ activeProfile \in Names
    /\ activeProfile \in DOMAIN profiles

\* C21: after any sequence of CLI commands run one after the other from an
\* empty store, the active pointer is none or the name of a stored profile.
C21_Original == activeProfile = Null \/ activeProfile \in DOMAIN profiles

\* `use constructor` has succeeded on a store that holds no profile of that
\* name, and the pointer names it
C21_Witness ==
    /\ last.op = "use"
    /\ last.outcome = "ok"
    /\ last.name \in InheritedNames
    /\ activeProfile = last.name
    /\ activeProfile \notin DOMAIN profiles

\* for names that are not names of inherited properties the pointer is none
\* or names a stored profile
C21_OwnNames == activeProfile \in InheritedNames \/ C21_Original

ProviderVariables == {"ANTHROPIC_BASE_URL", "ANTHROPIC_AUTH_TOKEN", "ANTHROPIC_MODEL"}

\* what a profile defines for variable k: the value generateEnvVars gives it,
\* if it gives it one that is not empty
DefinedBy(profile, k) ==
    LET env == generateEnvVars(profile)
        at == {i \in 1..Len(env) : env[i][1] = k /\ env[i][2] # <<>>}
    IN  IF at = {} THEN [set |-> FALSE, v |-> <<>>]
        ELSE [set |-> TRUE, v |-> env[CHOOSE i \in at : TRUE][2]]

\* a shell has just evaluated the script of a successful use, a profile being
\* active in it before
C22_UseAfterUse ==
    /\ last.op = "use"
    /\ last.outcome = "ok"
    /\ last.evaluated
    /\ Truthy(last.before, "CCX_ACTIVE_PROFILE")

\* C22: after the script of use B is evaluated in a shell where the script of
\* use A was evaluated before, each of ANTHROPIC_BASE_URL,
\* ANTHROPIC_AUTH_TOKEN and ANTHROPIC_MODEL holds what B defines for it and
\* is unset if B defines nothing for it.
C22_Original ==
    C22_UseAfterUse =>
        \A k \in ProviderVariables :
            Holds(shells[last.shell].env, k)
                = DefinedBy(getProfile(Doc, last.name).profile, k)

\* profile b, which has no model, was activated after profile a in the same
\* shell, and ANTHROPIC_MODEL still holds the model of a
C22_Witness ==
    /\ C22_UseAfterUse
    /\ last.name = NameB
    /\ last.before["CCX_ACTIVE_PROFILE"] = NameA
    /\ ~Has(getProfile(Doc, NameB).profile, "model")
    /\ Holds(shells[last.shell].env, "ANTHROPIC_MODEL") = [set |-> TRUE, v |-> Model1]
    /\ Holds(shells[last.shell].env, "ANTHROPIC_BASE_URL") = [set |-> TRUE, v |-> Url2]

\* every script of a use or a reset was read to its end by the shell
LiveEvaluated == last.op \in {"use", "reset"} => last.outcome # "ok" \/ last.evaluated

\* C23: in the bash/zsh script of a profile that create or import can store,
\* the profile name in the CCX_ACTIVE_PROFILE statement is single-quoted
\* with every ' replaced by '\'', as the values are, so that the shell reads
\* the whole script as assignments and unsets and CCX_ACTIVE_PROFILE ends up
\* holding exactly the profile's name.
C23_Original ==
    (emitted.op = "generate" /\ emitted.shell \in {"bash", "zsh"}) =>
        LET r == Eval(emitted.shell, <<>>, emitted.lines)
        IN  /\ emitted.lines[Len(emitted.lines)]
                  = BashExport("CCX_ACTIVE_PROFILE", emitted.profile.name)
            /\ r.ok
            /\ Holds(r.env, "CCX_ACTIVE_PROFILE")
                  = [set |-> TRUE, v |-> emitted.profile.name]

\* the bash script of a profile named it's: the shell cannot read its last
\* statement and CCX_ACTIVE_PROFILE is not set
C23_Witness ==
    /\ emitted.op = "generate"
    /\ emitted.shell = "bash"
    /\ emitted.profile.name = QuotedName
    /\ ~Eval("bash", <<>>, emitted.lines).ok
    /\ ~Has(Eval("bash", <<>>, emitted.lines).env, "CCX_ACTIVE_PROFILE")

\* the statements for the entries of env are quoted: what the shell reads from
\* them is what generateEnvVars gave
C23_ValuesQuoted ==
    (emitted.op = "generate" /\ emitted.shell \in {"bash", "zsh"}) =>
        LET body == SubSeq(emitted.lines, 1, Len(emitted.lines) - 1)
            r == Eval(emitted.shell, <<>>, body)
        IN  /\ r.ok
            /\ \A i \in 1..Len(emitted.env) :
                  Holds(r.env, emitted.env[i][1])
                      = IF emitted.env[i][2] = <<>> THEN [set |-> FALSE, v |-> <<>>]
                        ELSE [set |-> TRUE, v |-> emitted.env[i][2]]

AnthropicVariables ==
    {"ANTHROPIC_BASE_URL", "ANTHROPIC_AUTH_TOKEN", "ANTHROPIC_MODEL", "ANTHROPIC_API_KEY"}

\* the generator generateShellScript picks for a dialect
GeneratorOf(shell) == IF shell \in {"bash", "zsh"} THEN "bash" ELSE shell

\* the statements of a script that name variable k
StatementsFor(lines, k) ==
    SelectSeq(lines, LAMBDA l : Len(l) >= 2 /\ l[2] = k)

\* the assignment of value to key in a dialect
C24_Assignment(gen, key, value) ==
    CASE gen = "bash" -> BashExport(key, value)
      [] gen = "fish" -> FishSet(key, value)
      [] gen = "powershell" -> PowerShellSet(key, value)
      [] gen = "cmd" -> CmdSet(key, value)

C24_Names(extra) == {extra[i][1] : i \in 1..Len(extra)}

C24_WithExtra == emitted.op = "generate" /\ Has(emitted.profile, "extraEnv")

\* C24 as stated: every entry of extraEnv appears in the script as an
\* assignment of its value to its name, and the statements for
\* ANTHROPIC_BASE_URL, ANTHROPIC_AUTH_TOKEN, ANTHROPIC_MODEL and
\* ANTHROPIC_API_KEY are those of the same profile without extraEnv.
C24_Original ==
    C24_WithExtra =>
        LET p == emitted.profile
            gen == GeneratorOf(emitted.shell)
            plain == ScriptLines(Without(p, "extraEnv"), emitted.shell, now)
        IN  /\ \A i \in 1..Len(p.extraEnv) :
                  StatementsFor(emitted.lines, p.extraEnv[i][1])
                      = << C24_Assignment(gen, p.extraEnv[i][1], p.extraEnv[i][2]) >>
            /\ \A k \in AnthropicVariables :
                  StatementsFor(emitted.lines, k) = StatementsFor(plain, k)

\* C24: every entry of extraEnv appears in the script exactly once, as the
\* dialect's assignment of its value to its name if the value is not empty
\* and as the dialect's clear statement if it is; and the statements for those
\* of ANTHROPIC_BASE_URL, ANTHROPIC_AUTH_TOKEN, ANTHROPIC_MODEL and
\* ANTHROPIC_API_KEY that extraEnv does not name are those of the same profile
\* without extraEnv.
C24_ExtraEnv ==
    C24_WithExtra =>
        LET p == emitted.profile
            gen == GeneratorOf(emitted.shell)
            plain == ScriptLines(Without(p, "extraEnv"), emitted.shell, now)
        IN  /\ \A i \in 1..Len(p.extraEnv) :
                  StatementsFor(emitted.lines, p.extraEnv[i][1])
                      = << EntryLine(gen, p.extraEnv[i][1], p.extraEnv[i][2]) >>
            /\ \A k \in AnthropicVariables \ C24_Names(p.extraEnv) :
                  StatementsFor(emitted.lines, k) = StatementsFor(plain, k)

\* a script of a profile with a credential whose extraEnv names
\* ANTHROPIC_AUTH_TOKEN and gives ANTHROPIC_MODEL the empty value: it has the
\* assignment of extraEnv's token and no assignment of the credential
C24_Witness ==
    /\ C24_WithExtra
    /\ emitted.shell = "fish"
    /\ Truthy(emitted.profile, "apiKey")
    /\ Truthy(emitted.profile, "model")
    /\ StatementsFor(emitted.lines, "ANTHROPIC_AUTH_TOKEN")
          = << FishSet("ANTHROPIC_AUTH_TOKEN", <<"t">>) >>
    /\ StatementsFor(emitted.lines, "ANTHROPIC_MODEL") = << FishErase("ANTHROPIC_MODEL") >>
    /\ StatementsFor(emitted.lines, "ANTHROPIC_BASE_URL") # <<>>

\* a create with a template and neither --clear-key nor --no-clear-key has
\* succeeded
C25_TemplateCreate ==
    /\ last.op = "create"
    /\ last.outcome = "ok"
    /\ Has(last.options, "template")
    /\ ~Has(last.options, "clearKey")

\* C25: a profile created by `create <name> --template T` without a clear-key
\* flag is stored with the clearAnthropicKey of template T, so its activation
\* script clears ANTHROPIC_API_KEY only if the template says so.
C25_Original ==
    C25_TemplateCreate =>
        LET template == getTemplate(last.options.template).template
            profile == getProfile(Doc, last.name).profile
        IN  /\ profile.clearAnthropicKey = template.clearAnthropicKey
            /\ template.clearAnthropicKey
                  <=> \E i \in 1..Len(generateEnvVars(profile)) :
                        generateEnvVars(profile)[i] = <<"ANTHROPIC_API_KEY", <<>> >>

\* `create a --template official`: the profile is stored with
\* clearAnthropicKey true, and its script clears ANTHROPIC_API_KEY
C25_Witness ==
    /\ C25_TemplateCreate
    /\ last.options.template = "official"
    /\ ~getTemplate("official").template.clearAnthropicKey
    /\ profiles[last.name].clearAnthropicKey
    /\ BashUnset("ANTHROPIC_API_KEY")
          \in {ScriptLines(getProfile(Doc, last.name).profile, "bash", now)[i] :
                 i \in 1..Len(ScriptLines(getProfile(Doc, last.name).profile, "bash", now))}

\* the field of a profile an option of edit sets
C26_FieldOf(option) == IF option = "clearKey" THEN "clearAnthropicKey" ELSE option

C26_Given(options) == {C26_FieldOf(k) : k \in DOMAIN options}

\* C26: an edit of a stored profile changes, in what getProfile returns for
\* it, only the fields given in the options (to the values given) and
\* updatedAt: name, provider, createdAt, extraEnv and every other field not
\* given keep their values, the plaintext credential among them when no api
\* key is given; this holds at every edit of a run, so for any number of edits
\* in sequence.  The other profiles are not changed.
C26_EditFrame ==
    [][ (last'.op = "edit" /\ last'.outcome = "ok") =>
          LET n == last'.name
              o == last'.options
              before == getProfile(Doc, n).profile
              after == getProfile([profiles |-> profiles', activeProfile |-> activeProfile',
                                   settings |-> settings'], n).profile
          IN  /\ DOMAIN profiles' = DOMAIN profiles
              /\ \A m \in DOMAIN profiles \ {n} : profiles'[m] = profiles[m]
              /\ DOMAIN after = DOMAIN before \cup C26_Given(o)
              /\ \A f \in DOMAIN before \ (C26_Given(o) \cup {"updatedAt"}) :
                    after[f] = before[f]
              /\ \A k \in DOMAIN o : after[C26_FieldOf(k)] = o[k]
              /\ after.updatedAt = now ]_vars

\* a profile created from the openrouter template with one credential, given
\* another credential by a first edit, after a second edit without an api key:
\* getProfile returns the credential of the first edit
C26_Witness ==
    /\ last.op = "edit"
    /\ last.outcome = "ok"
    /\ ~Has(last.options, "apiKey")
    /\ Has(last.options, "model")
    /\ profiles[last.name].provider = "openrouter"
    /\ profiles[last.name].createdAt = 1
    /\ profiles[last.name].updatedAt = 3
    /\ profiles[last.name].apiKey # Key2
    /\ getProfile(Doc, last.name).profile.apiKey = Key2

\* C27: every stored profile has a non-empty name and a non-empty baseUrl and
\* is stored under the key equal to its name.
C27_Original ==
    \A n \in DOMAIN profiles :
        /\ Truthy(profiles[n], "name")
        /\ Truthy(profiles[n], "baseUrl")
        /\ profiles[n].name = n

\* an import of JSON that has a name and no baseUrl has succeeded, and the
\* profile is stored without a baseUrl
C27_Witness ==
    /\ last.op = "import"
    /\ last.outcome = "ok"
    /\ last.json = JsonNoUrl
    /\ NameB \in DOMAIN profiles
    /\ ~Has(profiles[NameB], "baseUrl")

\* every stored profile is stored under its own name
C27_KeyIsName == \A n \in DOMAIN profiles : Truthy(profiles[n], "name") /\ profiles[n].name = n

\* C28: a delete without --force leaves the document as it was: the named
\* profile stays stored and the active pointer is unchanged; and a delete
\* removes a profile only when it is given --force and the name of a stored
\* profile, in which case it removes that profile and no other.
C28_DeleteNeedsForce ==
    [][ last'.op = "delete" =>
          /\ ~last'.force =>
                /\ profiles' = profiles
                /\ activeProfile' = activeProfile
                /\ settings' = settings
          /\ profiles' # profiles =>
                /\ last'.force
                /\ last'.name \in DOMAIN profiles
                /\ profiles' = Without(profiles, last'.name)
          /\ (last'.force /\ last'.name \in DOMAIN profiles) =>
                last'.name \notin DOMAIN profiles' ]_vars

\* a delete without --force of the stored, active profile has ended: the
\* profile is stored and active as before
C28_Witness ==
    /\ last.op = "delete"
    /\ last.outcome = "ok"
    /\ ~last.force
    /\ stdout.kind = "confirm"
    /\ last.name \in DOMAIN profiles
    /\ activeProfile = last.name

==============================================================================
